---- MODULE Spec2Model ----
(***************************************************************************)
(* GoNavi backend connectivity layer.                                      *)
(*                                                                         *)
(*   Spec      : the connection cache of App (src/app.go)                  *)
(*   SpecAgent : one agent client and its worker process, the line         *)
(*               protocol between them (optional_driver_agent client,      *)
(*               cmd/optional-driver-agent worker)                         *)
(*   SpecProv  : one run of ensureOptionalDriverAgentBinary, the           *)
(*               provisioning of an agent executable                       *)
(*   SpecPkg   : one resolution of the effective driver packages from a    *)
(*               manifest, and the driver definition built from them       *)
(*   SpecRegistry: registerDatabaseFactory and the two NewDatabase factories *)
(*   SpecDiros:  DirosDB.Connect over the addresses of a multi-host config   *)
(*   SpecStatus: the driver directories on disk, the install / remove      *)
(*               operations of App and the runtime support status          *)
(*   SpecProgress: calls of App.emitDriverDownloadProgress                 *)
(*   SpecHang: goroutines at one cached agent-backed connection whose      *)
(*               worker may take a request and never answer                *)
(*   SpecManifest: the manifest cache over resolves, time and changes of   *)
(*               the remote manifest                                       *)
(*   SpecCapture: what one client does with the lines its worker writes    *)
(*               to stderr and to stdout                                   *)
(*   SpecWorker: the main loop of one worker process over the lines of    *)
(*               its stdin                                                 *)
(*   SpecBinding: one OptionalDriverAgentDB and the worker processes it    *)
(*               spawns, kills and waits for                               *)
(*   SpecRace: two install runs copying into one executable path          *)
(*   SpecUse:  goroutines using the cached object beside getDatabase,       *)
(*               DBConnect and shutdown                                      *)
(*   SpecDuck: one DuckDB.ApplyChanges over a change set                    *)
(*   SpecInstall: one run of App.DownloadDriverPackage, step by step, with *)
(*               the provisioning run inside it and the events emitted     *)
(*                                                                         *)
(* Each specification moves only its own part of the state; the other      *)
(* parts stay in their dormant initial value.                              *)
(***************************************************************************)
EXTENDS Integers, Sequences, FiniteSets, TLC

VARIABLES
    dbCache,    \* App.dbCache: fingerprint -> connection object
    mu,         \* App.mu: the goroutine holding it, or NoThread
    objects,    \* every Database object constructed so far, by identity
    thr,        \* per goroutine: position in getDatabase / DBConnect and its locals
    calls,      \* history: the getDatabase calls that returned, in return order
    everStored  \* history: every object that was ever stored in dbCache

VARIABLES
    client,       \* optionalDriverAgentClient: nextID and the holder of its mu
    caller,       \* per goroutine: position in client.call and its request
    stdinPipe,    \* request lines written to the worker's stdin, not yet read by it
    stdoutPipe,   \* response lines written by the worker, not yet read by the client
    worker,       \* the worker process: alive, inst, the bindings it constructed
    engineData,   \* the engine's data: the number of writes that took effect
    hasApplier,   \* whether the binding compiled into the worker has ApplyChanges
    connected,    \* history: a connect succeeded and no close has succeeded since
    lastHandled,  \* history: the request the worker handled last, and its answer
    exchanges     \* history: the calls that returned, in return order

VARIABLES
    provEnv,      \* what a provisioning run finds: target path, candidates, URL, version
    fsTarget,     \* the file system at the target executable path, and who put it there
    prov          \* the run of ensureOptionalDriverAgentBinary: position, locals, result

cacheVars == <<dbCache, mu, objects, thr, calls, everStored>>

agentVars == <<client, caller, stdinPipe, stdoutPipe, worker, engineData,
               hasApplier, connected, lastHandled, exchanges>>

provVars == <<provEnv, fsTarget, prov>>

VARIABLES
    pkg           \* one resolution of the effective driver packages from a manifest

pkgVars == <<pkg>>

VARIABLES
    drv           \* driver directories on disk, externalDriverDir, the build, last answers

drvVars == <<drv>>

VARIABLES
    diros         \* one DirosDB.Connect: the config, the addresses, the attempts

dirosVars == <<diros>>

VARIABLES
    reg           \* databaseFactories, and the last call on it with its result

regVars == <<reg>>

VARIABLES
    progress    \* calls of App.emitDriverDownloadProgress: a.ctx and the events emitted
progVars == <<progress>>

VARIABLES
    install     \* one run of App.DownloadDriverPackage around the provisioning run
instVars == <<install>>

VARIABLES
    binding     \* one OptionalDriverAgentDB: its client and the processes it spawned
bindVars == <<binding>>

VARIABLES
    wk          \* one worker process: its loop, its pipes and its engine connections
wkVars == <<wk>>

VARIABLES
    capture     \* one client's view of what its worker writes: stderr text, stdout lines
capVars == <<capture>>

VARIABLES
    mc          \* the manifest cache, the clock, the remote manifest, the maps handed out
mcVars == <<mc>>

VARIABLES
    hang        \* goroutines at one cached agent-backed connection: a.mu, c.mu, the worker
hangVars == <<hang>>

VARIABLES
    duck        \* one DuckDB.ApplyChanges: the change set, the transaction, the table
duckVars == <<duck>>

VARIABLES
    use         \* goroutines that use, evict and close the cached connection object
useVars == <<use>>

VARIABLES
    race        \* concurrent copies of an agent binary into one executable path
raceVars == <<race>>

vars ==
    <<cacheVars, agentVars, provVars, pkgVars, drvVars, dirosVars, regVars, progVars,
      instVars, bindVars, wkVars, capVars, mcVars, hangVars, duckVars, useVars, raceVars>>

\* what the actions of one part leave alone
notCache ==
    <<agentVars, provVars, pkgVars, drvVars, dirosVars, regVars, progVars, instVars, bindVars,
      wkVars, capVars, mcVars, hangVars, duckVars, useVars, raceVars>>
notAgent ==
    <<cacheVars, provVars, pkgVars, drvVars, dirosVars, regVars, progVars, instVars, bindVars,
      wkVars, capVars, mcVars, hangVars, duckVars, useVars, raceVars>>
notProv ==
    <<cacheVars, agentVars, pkgVars, drvVars, dirosVars, regVars, progVars, instVars, bindVars,
      wkVars, capVars, mcVars, hangVars, duckVars, useVars, raceVars>>
notPkg ==
    <<cacheVars, agentVars, provVars, drvVars, dirosVars, regVars, progVars, instVars, bindVars,
      wkVars, capVars, mcVars, hangVars, duckVars, useVars, raceVars>>
notDrv ==
    <<cacheVars, agentVars, provVars, pkgVars, dirosVars, regVars, progVars, instVars, bindVars,
      wkVars, capVars, mcVars, hangVars, duckVars, useVars, raceVars>>
notDiros ==
    <<cacheVars, agentVars, provVars, pkgVars, drvVars, regVars, progVars, instVars, bindVars,
      wkVars, capVars, mcVars, hangVars, duckVars, useVars, raceVars>>
notReg ==
    <<cacheVars, agentVars, provVars, pkgVars, drvVars, dirosVars, progVars, instVars, bindVars,
      wkVars, capVars, mcVars, hangVars, duckVars, useVars, raceVars>>
notProgress ==
    <<cacheVars, agentVars, provVars, pkgVars, drvVars, dirosVars, regVars, instVars, bindVars,
      wkVars, capVars, mcVars, hangVars, duckVars, useVars, raceVars>>
notInstall ==
    <<cacheVars, agentVars, pkgVars, drvVars, dirosVars, regVars, progVars, bindVars,
      wkVars, capVars, mcVars, hangVars, duckVars, useVars, raceVars>>
notBinding ==
    <<cacheVars, agentVars, provVars, pkgVars, drvVars, dirosVars, regVars, progVars,
      instVars, wkVars, capVars, mcVars, hangVars, duckVars, useVars, raceVars>>
notWorker ==
    <<cacheVars, agentVars, provVars, pkgVars, drvVars, dirosVars, regVars, progVars,
      instVars, bindVars, capVars, mcVars, hangVars, duckVars, useVars, raceVars>>
notCapture ==
    <<cacheVars, agentVars, provVars, pkgVars, drvVars, dirosVars, regVars, progVars,
      instVars, bindVars, wkVars, mcVars, hangVars, duckVars, useVars, raceVars>>
notHang ==
    <<cacheVars, agentVars, provVars, pkgVars, drvVars, dirosVars, regVars, progVars,
      instVars, bindVars, wkVars, capVars, mcVars, duckVars, useVars, raceVars>>
notManifest ==
    <<cacheVars, agentVars, provVars, pkgVars, drvVars, dirosVars, regVars, progVars,
      instVars, bindVars, wkVars, capVars, hangVars, duckVars, useVars, raceVars>>
notDuck ==
    <<cacheVars, agentVars, provVars, pkgVars, drvVars, dirosVars, regVars, progVars,
      instVars, bindVars, wkVars, capVars, mcVars, hangVars, useVars, raceVars>>
notUse ==
    <<cacheVars, agentVars, provVars, pkgVars, drvVars, dirosVars, regVars, progVars,
      instVars, bindVars, wkVars, capVars, mcVars, hangVars, duckVars, raceVars>>
notRace ==
    <<cacheVars, agentVars, provVars, pkgVars, drvVars, dirosVars, regVars, progVars,
      instVars, bindVars, wkVars, capVars, mcVars, hangVars, duckVars, useVars>>

----------------------------------------------------------------------------
(* Bounds *)

\* getDatabase / DBConnect calls started in one behaviour
MaxCalls == 3

\* client.call invocations started in one behaviour
MaxAgentCalls == 3

\* local candidate paths of one provisioning run
MaxCandidates == 2

\* entries of the "drivers" object of one manifest
MaxManifestEntries == 1
MaxDiskChanges == 1

\* entries of config.Hosts
MaxHosts == 3

\* calls of registerDatabaseFactory after init()
MaxRegistrations == 2

\* calls of emitDriverDownloadProgress in one behaviour
MaxEmits == 1

\* calls of the methods of one OptionalDriverAgentDB in one behaviour
MaxBindingOps == 3

\* lines written to the stdin of one worker
MaxLines == 2

\* calls of resolveManifestDriverPackages in one behaviour
MaxResolves == 3

\* the minutes the clock of the manifest cache runs
MaxClock == 6

\* changes a caller makes to a package map it was given
MaxMutations == 1
\* the deletes, the updates and the inserts of a change set, each at most
MaxStatements == 1
\* the chunks io.Copy writes for one agent binary
MaxChunks == 2

\* lines one worker writes to its stdout and stderr
MaxOutputLines == 3

\* the longest line a scanner takes, in characters (8 MB in the program)
MaxLineLen == 2

Threads == {"t1", "t2"}
NoThread == "none"
NoObj == 0

----------------------------------------------------------------------------
(* ConnectionConfig values (src/app.go:44-53) *)

\* A type name is a sequence of characters, so that trimming, lower-casing and
\* formatting act on its text; Text is the Go string it stands for.
RECURSIVE Text(_)
Text(chars) == IF chars = << >> THEN "" ELSE Head(chars) \o Text(Tail(chars))

TypeMySQL == <<"m", "y", "s", "q", "l">>
TypeDoris == <<"d", "o", "r", "i", "s">>
TypeDiros == <<"d", "i", "r", "o", "s">>

BaseConfig ==
    [Type |-> TypeMySQL, Host |-> "h1", Port |-> 3306, User |-> "root",
     Password |-> "pw1", Database |-> "db1", UseSSH |-> FALSE, SSHHost |-> ""]

\* one config, the same with another password, the same with another database,
\* and the two spellings of the Doris engine
Configs ==
    { BaseConfig,
      [BaseConfig EXCEPT !.Password = "pw2"],
      [BaseConfig EXCEPT !.Database = "db2"],
      [BaseConfig EXCEPT !.Type = TypeDoris],
      [BaseConfig EXCEPT !.Type = TypeDiros] }

NoConfig == [BaseConfig EXCEPT !.Type = <<"-">>]

\* fmt's %v of a bool
FormatBool(b) == IF b THEN "true" ELSE "false"

\* a variant of getCacheKey that also formats the password
getCacheKeyWithPassword(config) ==
    Text(config.Type) \o "|" \o config.User \o "|" \o config.Password \o "|"
        \o config.Host \o ":" \o ToString(config.Port) \o "|"
        \o config.Database \o "|" \o config.SSHHost \o "|"
        \o FormatBool(config.UseSSH)

\* fmt.Sprintf("%s|%s|%s:%d|%s|%s|%v", Type, User, Host, Port, Database, SSH.Host, UseSSH)
getCacheKey(config) ==
    Text(config.Type) \o "|" \o config.User \o "|" \o config.Host \o ":"
        \o ToString(config.Port) \o "|" \o config.Database \o "|"
        \o config.SSHHost \o "|" \o FormatBool(config.UseSSH)

\* package main's factory: the binding constructed for a type, or an error
NewDatabase(dbType) ==
    CASE Text(dbType) = "mysql"    -> [ok |-> TRUE, kind |-> "MySQLDB"]
      [] Text(dbType) = "postgres" -> [ok |-> TRUE, kind |-> "PostgresDB"]
      [] Text(dbType) = "sqlite"   -> [ok |-> TRUE, kind |-> "SQLiteDB"]
      [] OTHER ->
            IF Text(dbType) = ""
                THEN [ok |-> TRUE, kind |-> "MySQLDB"]
                ELSE [ok |-> FALSE, kind |-> "unsupported database type"]

----------------------------------------------------------------------------
(* The driver registry of package db (src/internal/db/database.go) *)

UpperChars == <<"A", "B", "C", "D", "E", "F", "G", "H", "I", "J", "K", "L", "M",
                "N", "O", "P", "Q", "R", "S", "T", "U", "V", "W", "X", "Y", "Z">>
LowerChars == <<"a", "b", "c", "d", "e", "f", "g", "h", "i", "j", "k", "l", "m",
                "n", "o", "p", "q", "r", "s", "t", "u", "v", "w", "x", "y", "z">>
SpaceChars == {" ", "\t", "\n", "\r"}

\* strings.ToLower
UpperSet == {UpperChars[i] : i \in DOMAIN UpperChars}
LowerOf ==
    [ch \in UpperSet |-> LowerChars[CHOOSE i \in DOMAIN UpperChars : UpperChars[i] = ch]]
ToLowerChar(ch) == IF ch \in UpperSet THEN LowerOf[ch] ELSE ch
ToLower(chars) == [i \in DOMAIN chars |-> ToLowerChar(chars[i])]

\* strings.TrimSpace
RECURSIVE TrimLeft(_)
TrimLeft(chars) ==
    IF chars # << >> /\ Head(chars) \in SpaceChars THEN TrimLeft(Tail(chars)) ELSE chars
RECURSIVE TrimRight(_)
TrimRight(chars) ==
    IF chars # << >> /\ chars[Len(chars)] \in SpaceChars
        THEN TrimRight(SubSeq(chars, 1, Len(chars) - 1))
        ELSE chars
TrimSpace(chars) == TrimRight(TrimLeft(chars))

TypePostgres == <<"p", "o", "s", "t", "g", "r", "e", "s">>

normalizeDatabaseType(dbType) ==
    LET normalized == ToLower(TrimSpace(dbType)) IN
    CASE normalized = TypeDoris      -> TypeDiros
      [] normalized = <<"p", "o", "s", "t", "g", "r", "e", "s", "q", "l">> -> TypePostgres
      [] OTHER                           -> normalized

normalizeRuntimeDriverType(driverType) ==
    LET normalized == ToLower(TrimSpace(driverType)) IN
    CASE normalized = TypeDoris      -> TypeDiros
      [] normalized = <<"p", "o", "s", "t", "g", "r", "e", "s", "q", "l">> -> TypePostgres
      [] OTHER                           -> normalized

\* A factory is named by the binding it constructs; NilFactory is the nil func.
NilFactory == "nil"
newOptionalDriverAgentDatabase(driverType) ==
    "OptionalDriverAgentDB:" \o Text(normalizeRuntimeDriverType(driverType))

\* the package-level map literal, keyed by the text of the type name
BuiltinFactories ==
    [k \in {"mysql", "postgres", "oracle", "custom"} |->
        CASE k = "mysql"    -> "MySQLDB"
          [] k = "postgres" -> "PostgresDB"
          [] k = "oracle"   -> "OracleDB"
          [] k = "custom"   -> "CustomDB"]

RECURSIVE registerEach(_, _, _)
registerEach(factories, factory, dbTypes) ==
    IF dbTypes = << >> THEN factories
    ELSE LET normalized == normalizeDatabaseType(Head(dbTypes))
             next == IF Text(normalized) = ""
                        THEN factories
                        ELSE [k \in (DOMAIN factories) \cup {Text(normalized)} |->
                                IF k = Text(normalized) THEN factory ELSE factories[k]]
         IN  registerEach(next, factory, Tail(dbTypes))

RECURSIVE registerDatabaseFactoryKeepFirst(_, _, _)
\* a variant of registerDatabaseFactory that leaves a type that has a factory as it is
registerDatabaseFactoryKeepFirst(factories, factory, dbTypes) ==
    IF factory = NilFactory \/ Len(dbTypes) = 0 THEN factories
    ELSE LET normalized == normalizeDatabaseType(Head(dbTypes))
             next == IF Text(normalized) = "" \/ Text(normalized) \in DOMAIN factories
                        THEN factories
                        ELSE [k \in (DOMAIN factories) \cup {Text(normalized)} |->
                                IF k = Text(normalized) THEN factory ELSE factories[k]]
         IN  registerDatabaseFactoryKeepFirst(next, factory, Tail(dbTypes))

registerDatabaseFactory(factories, factory, dbTypes) ==
    IF factory = NilFactory \/ Len(dbTypes) = 0
        THEN factories
        ELSE registerEach(factories, factory, dbTypes)

\* the registrations of the full build, in source order
\* (each: the driver type of the agent-backed factory, the names it is registered under)
OptionalRegistrations ==
    <<
       <<<<"m", "a", "r", "i", "a", "d", "b">>,
          <<<<"m", "a", "r", "i", "a", "d", "b">>>> >>,
       <<<<"d", "i", "r", "o", "s">>,
          <<<<"d", "i", "r", "o", "s">>, <<"d", "o", "r", "i", "s">>>> >>,
       <<<<"s", "p", "h", "i", "n", "x">>,
          <<<<"s", "p", "h", "i", "n", "x">>>> >>,
       <<<<"s", "q", "l", "s", "e", "r", "v", "e", "r">>,
          <<<<"s", "q", "l", "s", "e", "r", "v", "e", "r">>>> >>,
       <<<<"s", "q", "l", "i", "t", "e">>,
          <<<<"s", "q", "l", "i", "t", "e">>>> >>,
       <<<<"d", "u", "c", "k", "d", "b">>,
          <<<<"d", "u", "c", "k", "d", "b">>>> >>,
       <<<<"d", "a", "m", "e", "n", "g">>,
          <<<<"d", "a", "m", "e", "n", "g">>>> >>,
       <<<<"k", "i", "n", "g", "b", "a", "s", "e">>,
          <<<<"k", "i", "n", "g", "b", "a", "s", "e">>>> >>,
       <<<<"h", "i", "g", "h", "g", "o">>,
          <<<<"h", "i", "g", "h", "g", "o">>>> >>,
       <<<<"v", "a", "s", "t", "b", "a", "s", "e">>,
          <<<<"v", "a", "s", "t", "b", "a", "s", "e">>>> >>,
       <<<<"m", "o", "n", "g", "o", "d", "b">>,
          <<<<"m", "o", "n", "g", "o", "d", "b">>>> >>,
       <<<<"t", "d", "e", "n", "g", "i", "n", "e">>,
          <<<<"t", "d", "e", "n", "g", "i", "n", "e">>>> >>
    >>

RECURSIVE registerAll(_, _)
registerAll(factories, regs) ==
    IF regs = << >> THEN factories
    ELSE registerAll(
            registerDatabaseFactory(factories,
                newOptionalDriverAgentDatabase(Head(regs)[1]), Head(regs)[2]),
            Tail(regs))

\* databaseFactories after init()
registerOptionalDatabaseFactories == registerAll(BuiltinFactories, OptionalRegistrations)

\* a variant of package db's NewDatabase without the default for an empty name
dbNewDatabaseNoDefault(factories, dbType) ==
    LET normalized == normalizeDatabaseType(dbType)
    IN  IF Text(normalized) \in DOMAIN factories
            THEN [ok |-> TRUE, kind |-> factories[Text(normalized)]]
            ELSE [ok |-> FALSE, kind |-> "unsupported database type"]

\* package db's NewDatabase, on the registry as it stands
dbNewDatabase(factories, dbType) ==
    LET n0 == normalizeDatabaseType(dbType)
        normalized == IF Text(n0) = "" THEN TypeMySQL ELSE n0
    IN  IF Text(normalized) \in DOMAIN factories
            THEN [ok |-> TRUE, kind |-> factories[Text(normalized)]]
            ELSE [ok |-> FALSE, kind |-> "unsupported database type"]

----------------------------------------------------------------------------
(* The connection cache: App.getDatabase and App.DBConnect *)

IdleThread ==
    [pc |-> "idle", op |-> "", cfg |-> NoConfig, key |-> "", db |-> NoObj,
     old |-> NoObj, found |-> FALSE, pingOK |-> FALSE, nconn |-> 0]

\* map operations on dbCache
CacheHas(key) == key \in DOMAIN dbCache
CacheGet(cache, key) == IF key \in DOMAIN cache THEN cache[key] ELSE NoObj
CacheDelete(cache, key) == [k \in (DOMAIN cache) \ {key} |-> cache[k]]
CachePut(cache, key, obj) ==
    [k \in (DOMAIN cache) \cup {key} |-> IF k = key THEN obj ELSE cache[k]]
CachedObjects == {dbCache[k] : k \in DOMAIN dbCache}

\* a freshly constructed Database object
NewObject(kind) ==
    [kind |-> kind, open |-> FALSE, closes |-> 0, connects |-> 0, connCfg |-> NoConfig]
NextObj == Len(objects) + 1

\* db.Close() on object o
CloseObject(objs, o) ==
    [objs EXCEPT ![o].open = FALSE, ![o].closes = objs[o].closes + 1]

CallsStarted == Len(calls) + Cardinality({t \in Threads : thr[t].pc # "idle"})

CacheInit ==
    /\ dbCache = [k \in {} |-> NoObj]
    /\ mu = NoThread
    /\ objects = << >>
    /\ thr = [t \in Threads |-> IdleThread]
    /\ calls = << >>
    /\ everStored = {}

\* what a returning getDatabase call leaves in the history
\* (made: the object it constructed; cached: the cache's entry for its key as it returns)
CallRecord(t, pingOK, ret, err, nconn, made, cached) ==
    [t |-> t, op |-> thr[t].op, cfg |-> thr[t].cfg, key |-> thr[t].key,
     found |-> thr[t].found, pingOK |-> pingOK, old |-> thr[t].old,
     ret |-> ret, err |-> err, nconn |-> nconn, made |-> made, cached |-> cached]

\* a caller enters getDatabase(config): key := getCacheKey(config)
GetDatabaseCall(t, config) ==
    /\ thr[t].pc = "idle"
    /\ CallsStarted < MaxCalls
    /\ thr' = [thr EXCEPT ![t] = [IdleThread EXCEPT !.pc = "gd_lock",
                    !.op = "getDatabase", !.cfg = config, !.key = getCacheKey(config)]]
    /\ UNCHANGED <<dbCache, mu, objects, calls, everStored>>
    /\ UNCHANGED notCache

\* a variant of GdLock that does not wait for the mutex
GdLockWithoutMutex(t) ==
    /\ thr[t].pc = "gd_lock"
    /\ mu' = t
    /\ thr' = [thr EXCEPT ![t].pc = "gd_lookup"]
    /\ UNCHANGED <<dbCache, objects, calls, everStored>>
    /\ UNCHANGED notCache

\* a.mu.Lock(); the matching Unlock is deferred to the return
GdLock(t) ==
    /\ thr[t].pc = "gd_lock"
    /\ mu = NoThread
    /\ mu' = t
    /\ thr' = [thr EXCEPT ![t].pc = "gd_lookup"]
    /\ UNCHANGED <<dbCache, objects, calls, everStored>>
    /\ UNCHANGED notCache

\* if db, ok := a.dbCache[key]; ok
GdLookup(t) ==
    /\ thr[t].pc = "gd_lookup"
    /\ IF CacheHas(thr[t].key)
          THEN thr' = [thr EXCEPT ![t].pc = "gd_ping", ![t].found = TRUE,
                            ![t].db = dbCache[thr[t].key], ![t].old = dbCache[thr[t].key]]
          ELSE thr' = [thr EXCEPT ![t].pc = "gd_new"]
    /\ UNCHANGED <<dbCache, mu, objects, calls, everStored>>
    /\ UNCHANGED notCache

\* a variant of GdPing that returns the cached object whatever Ping says
GdPingIgnoresError(t) ==
    /\ thr[t].pc = "gd_ping"
    /\ \E alive \in BOOLEAN :
          /\ thr' = [thr EXCEPT ![t] = IdleThread]
          /\ mu' = NoThread
          /\ calls' = Append(calls, CallRecord(t, alive, thr[t].db, "", thr[t].nconn, NoObj,
                                          CacheGet(dbCache, thr[t].key)))
    /\ UNCHANGED <<dbCache, objects, everStored>>
    /\ UNCHANGED notCache

\* a variant of GdPing that reconnects although Ping succeeded
GdPingAlwaysReconnects(t) ==
    /\ thr[t].pc = "gd_ping"
    /\ \E alive \in BOOLEAN :
          thr' = [thr EXCEPT ![t].pc = IF alive THEN "gd_new" ELSE "gd_evict",
                             ![t].pingOK = alive]
    /\ UNCHANGED <<dbCache, mu, objects, calls, everStored>>
    /\ UNCHANGED notCache

\* if err := db.Ping(); err == nil { return db, nil }
\* Ping answers for the engine behind the object: it fails on a closed object and
\* may fail on an open one (the server went away).
GdPing(t) ==
    /\ thr[t].pc = "gd_ping"
    /\ \E alive \in BOOLEAN :
          IF alive /\ objects[thr[t].db].open
             THEN /\ thr' = [thr EXCEPT ![t] = IdleThread]
                  /\ mu' = NoThread
                  /\ calls' = Append(calls, CallRecord(t, TRUE, thr[t].db, "", thr[t].nconn,
                                                  NoObj, CacheGet(dbCache, thr[t].key)))
             ELSE /\ thr' = [thr EXCEPT ![t].pc = "gd_evict", ![t].pingOK = FALSE]
                  /\ UNCHANGED <<mu, calls>>
    /\ UNCHANGED <<dbCache, objects, everStored>>
    /\ UNCHANGED notCache

\* a variant of GdEvict that drops the entry without closing the object
GdEvictWithoutClose(t) ==
    /\ thr[t].pc = "gd_evict"
    /\ dbCache' = CacheDelete(dbCache, thr[t].key)
    /\ thr' = [thr EXCEPT ![t].pc = "gd_new", ![t].db = NoObj]
    /\ UNCHANGED <<mu, objects, calls, everStored>>
    /\ UNCHANGED notCache

\* a variant of GdEvict that closes the object and leaves its entry in the cache
GdEvictKeepsEntry(t) ==
    /\ thr[t].pc = "gd_evict"
    /\ objects' = CloseObject(objects, thr[t].db)
    /\ thr' = [thr EXCEPT ![t].pc = "gd_new", ![t].db = NoObj]
    /\ UNCHANGED <<dbCache, mu, calls, everStored>>
    /\ UNCHANGED notCache

\* db.Close(); delete(a.dbCache, key)
GdEvict(t) ==
    /\ thr[t].pc = "gd_evict"
    /\ objects' = CloseObject(objects, thr[t].db)
    /\ dbCache' = CacheDelete(dbCache, thr[t].key)
    /\ thr' = [thr EXCEPT ![t].pc = "gd_new", ![t].db = NoObj]
    /\ UNCHANGED <<mu, calls, everStored>>
    /\ UNCHANGED notCache

\* db, err := NewDatabase(config.Type); if err != nil { return nil, err }
GdNew(t) ==
    /\ thr[t].pc = "gd_new"
    /\ LET made == NewDatabase(thr[t].cfg.Type) IN
          IF made.ok
             THEN /\ objects' = Append(objects, NewObject(made.kind))
                  /\ thr' = [thr EXCEPT ![t].pc = "gd_connect", ![t].db = NextObj]
                  /\ UNCHANGED <<mu, calls>>
             ELSE /\ thr' = [thr EXCEPT ![t] = IdleThread]
                  /\ mu' = NoThread
                  /\ calls' = Append(calls, CallRecord(t, thr[t].pingOK, NoObj, made.kind,
                                                  thr[t].nconn, NoObj,
                                                  CacheGet(dbCache, thr[t].key)))
                  /\ UNCHANGED objects
    /\ UNCHANGED <<dbCache, everStored>>
    /\ UNCHANGED notCache

\* if err := db.Connect(config); err != nil { return nil, err }
\* a.dbCache[key] = db; return db, nil
GdConnect(t) ==
    /\ thr[t].pc = "gd_connect"
    /\ \E connOK \in BOOLEAN :
          LET o == thr[t].db
              n == thr[t].nconn + 1
          IN  /\ objects' = [objects EXCEPT ![o].connects = objects[o].connects + 1,
                                            ![o].connCfg = thr[t].cfg,
                                            ![o].open = connOK]
              /\ IF connOK
                    THEN /\ dbCache' = CachePut(dbCache, thr[t].key, o)
                         /\ everStored' = everStored \cup {o}
                         /\ calls' = Append(calls, CallRecord(t, thr[t].pingOK, o, "", n, o, o))
                    ELSE /\ calls' = Append(calls, CallRecord(t, thr[t].pingOK, NoObj, "connect failed",
                                                         n, o, CacheGet(dbCache, thr[t].key)))
                         /\ UNCHANGED <<dbCache, everStored>>
              /\ thr' = [thr EXCEPT ![t] = IdleThread]
              /\ mu' = NoThread
    /\ UNCHANGED notCache

\* a caller enters DBConnect(config): key := getCacheKey(config)
DBConnectCall(t, config) ==
    /\ thr[t].pc = "idle"
    /\ CallsStarted < MaxCalls
    /\ thr' = [thr EXCEPT ![t] = [IdleThread EXCEPT !.pc = "dc_lock",
                    !.op = "DBConnect", !.cfg = config, !.key = getCacheKey(config)]]
    /\ UNCHANGED <<dbCache, mu, objects, calls, everStored>>
    /\ UNCHANGED notCache

\* DBConnect's a.mu.Lock(); DBConnect never unlocks
DcLock(t) ==
    /\ thr[t].pc = "dc_lock"
    /\ mu = NoThread
    /\ mu' = t
    /\ thr' = [thr EXCEPT ![t].pc = "dc_evict"]
    /\ UNCHANGED <<dbCache, objects, calls, everStored>>
    /\ UNCHANGED notCache

\* if oldDB, ok := a.dbCache[key]; ok { oldDB.Close(); delete(a.dbCache, key) }
\* and then the call a.getDatabase(config), which starts with a.mu.Lock()
DcEvict(t) ==
    /\ thr[t].pc = "dc_evict"
    /\ IF CacheHas(thr[t].key)
          THEN /\ objects' = CloseObject(objects, dbCache[thr[t].key])
               /\ dbCache' = CacheDelete(dbCache, thr[t].key)
               /\ thr' = [thr EXCEPT ![t].pc = "gd_lock", ![t].old = dbCache[thr[t].key]]
          ELSE /\ thr' = [thr EXCEPT ![t].pc = "gd_lock"]
               /\ UNCHANGED <<dbCache, objects>>
    /\ UNCHANGED <<mu, calls, everStored>>
    /\ UNCHANGED notCache

CacheNext ==
    \/ \E t \in Threads, config \in Configs : GetDatabaseCall(t, config)
    \/ \E t \in Threads : GdLock(t)
    \/ \E t \in Threads : GdLookup(t)
    \/ \E t \in Threads : GdPing(t)
    \/ \E t \in Threads : GdEvict(t)
    \/ \E t \in Threads : GdNew(t)
    \/ \E t \in Threads : GdConnect(t)
    \/ \E t \in Threads, config \in Configs : DBConnectCall(t, config)
    \/ \E t \in Threads : DcLock(t)
    \/ \E t \in Threads : DcEvict(t)

----------------------------------------------------------------------------
(* The agent wire protocol: the worker's handleRequest and the client's call *)

AgentMethods ==
    {"connect", "close", "ping", "query", "exec", "getDatabases", "getTables",
     "getCreateStatement", "getColumns", "getAllColumns", "getIndexes",
     "getForeignKeys", "getTriggers", "applyChanges"}

\* the methods that only read through the instance
ReadMethods ==
    {"ping", "query", "getDatabases", "getTables", "getCreateStatement",
     "getColumns", "getAllColumns", "getIndexes", "getForeignKeys", "getTriggers"}

\* a method name outside the closed set
UnknownMethod == "vacuum"

\* the methods the callers of this model send: the read methods differ only in
\* the payload they carry, so two of them stand for the ten
SentMethods ==
    {"connect", "close", "ping", "getTables", "exec", "applyChanges", UnknownMethod}

\* The requests a caller hands to client.call: a method with its payload, and
\* connect / applyChanges also without it (Config, Changes are pointers).
AgentRequests ==
    {[id |-> 0, method |-> m, hasConfig |-> (m = "connect"),
      hasChanges |-> (m = "applyChanges")] : m \in SentMethods}
    \cup {[id |-> 0, method |-> m, hasConfig |-> FALSE, hasChanges |-> FALSE] :
            m \in {"connect", "applyChanges"}}

\* error texts of the worker (the source's messages, in English where they are not)
ErrConfigNil == "connect config is empty"
ErrNotOpen == "connection not open"
ErrChangesNil == "change set is empty"
ErrNotSupported == "current driver does not support ApplyChanges"
ErrUnknownMethod == "unsupported method"
ErrEngine == "engine error"

NilInst == 0

\* What the engine does with one operation: whether Connect, Close or the
\* operation succeeds, and whether a statement takes effect on the data.
EngineOutcomes ==
    [connectOK : BOOLEAN, closeOK : BOOLEAN, opOK : BOOLEAN, writes : BOOLEAN]

\* a variant of newResponse that does not copy the request's id
newResponseWithoutID(req) == [id |-> 0, success |-> TRUE, error |-> ""]

\* resp := agentResponse{ID: req.ID, Success: true}
newResponse(req) == [id |-> req.id, success |-> TRUE, error |-> ""]

\* fail(resp, errText)
fail(resp, errText) == [resp EXCEPT !.success = FALSE, !.error = errText]

\* (*inst).Close(): the binding's handle is closed whatever Close returns
closeInst(insts, i) == [insts EXCEPT ![i] = FALSE]

\* the result of handling a request: the response, the new inst and bindings, the
\* engine's data, and whether an operation of the current instance was invoked
Handled(resp, inst, insts, data, touched) ==
    [resp |-> resp, inst |-> inst, insts |-> insts, data |-> data, touched |-> touched]

\* case agentMethodConnect
handleConnect(req, w, data, out) ==
    IF ~req.hasConfig
        THEN Handled(fail(newResponse(req), ErrConfigNil), w.inst, w.insts, data, FALSE)
        ELSE LET closed == IF w.inst # NilInst THEN closeInst(w.insts, w.inst) ELSE w.insts
                 next == Len(closed) + 1
             IN  IF out.connectOK
                    THEN Handled(newResponse(req), next, Append(closed, TRUE), data,
                                 w.inst # NilInst)
                    ELSE Handled(fail(newResponse(req), ErrEngine), w.inst,
                                 Append(closed, FALSE), data, w.inst # NilInst)

\* a variant of handleClose that keeps *inst after a successful Close
handleCloseKeepsInst(req, w, data, out) ==
    IF w.inst # NilInst
        THEN IF out.closeOK
                THEN Handled(newResponse(req), w.inst, closeInst(w.insts, w.inst), data, TRUE)
                ELSE Handled(fail(newResponse(req), ErrEngine), w.inst,
                             closeInst(w.insts, w.inst), data, TRUE)
        ELSE Handled(newResponse(req), w.inst, w.insts, data, FALSE)

\* case agentMethodClose
handleClose(req, w, data, out) ==
    IF w.inst # NilInst
        THEN IF out.closeOK
                THEN Handled(newResponse(req), NilInst, closeInst(w.insts, w.inst), data, TRUE)
                ELSE Handled(fail(newResponse(req), ErrEngine), w.inst,
                             closeInst(w.insts, w.inst), data, TRUE)
        ELSE Handled(newResponse(req), w.inst, w.insts, data, FALSE)

\* a variant of handleApplyChanges that applies without asking for the capability
handleApplyChangesUnchecked(req, w, data, out) ==
    IF ~req.hasChanges
        THEN Handled(fail(newResponse(req), ErrChangesNil), w.inst, w.insts, data, FALSE)
        ELSE IF w.insts[w.inst] /\ out.opOK
                THEN Handled(newResponse(req), w.inst, w.insts, data + 1, TRUE)
                ELSE Handled(fail(newResponse(req), ErrEngine), w.inst, w.insts,
                             IF w.insts[w.inst] /\ out.writes THEN data + 1 ELSE data, TRUE)

\* case agentMethodApplyChanges: a failing ApplyChanges may leave part of the change
\* set applied, as the binding decides
handleApplyChanges(req, w, data, out) ==
    IF ~req.hasChanges
        THEN Handled(fail(newResponse(req), ErrChangesNil), w.inst, w.insts, data, FALSE)
        ELSE IF ~hasApplier
                THEN Handled(fail(newResponse(req), ErrNotSupported), w.inst, w.insts,
                             data, FALSE)
                ELSE IF w.insts[w.inst] /\ out.opOK
                        THEN Handled(newResponse(req), w.inst, w.insts, data + 1, TRUE)
                        ELSE Handled(fail(newResponse(req), ErrEngine), w.inst, w.insts,
                                     IF w.insts[w.inst] /\ out.writes THEN data + 1 ELSE data,
                                     TRUE)

\* the second switch of handleRequest, reached with *inst != nil; an operation on a
\* closed instance fails
handleMethod(req, w, data, out) ==
    LET ok == w.insts[w.inst] /\ out.opOK IN
    CASE req.method \in ReadMethods ->
            Handled(IF ok THEN newResponse(req) ELSE fail(newResponse(req), ErrEngine),
                    w.inst, w.insts, data, TRUE)
      [] req.method = "exec" ->
            Handled(IF ok THEN newResponse(req) ELSE fail(newResponse(req), ErrEngine),
                    w.inst, w.insts, IF ok /\ out.writes THEN data + 1 ELSE data, TRUE)
      [] req.method = "applyChanges" -> handleApplyChanges(req, w, data, out)
      [] OTHER ->
            Handled(fail(newResponse(req), ErrUnknownMethod), w.inst, w.insts, data, FALSE)

\* handleRequest(inst, req)
handleRequest(req, w, data, out) ==
    CASE req.method = "connect" -> handleConnect(req, w, data, out)
      [] req.method = "close"   -> handleClose(req, w, data, out)
      [] OTHER ->
            IF w.inst = NilInst
                THEN Handled(fail(newResponse(req), ErrNotOpen), w.inst, w.insts, data, FALSE)
                ELSE handleMethod(req, w, data, out)

IdleCaller == [pc |-> "idle", req |-> [id |-> 0, method |-> "", hasConfig |-> FALSE,
                                        hasChanges |-> FALSE]]
NoneHandled ==
    [method |-> "", hasChanges |-> FALSE, wasConnected |-> FALSE, instBefore |-> NilInst,
     resp |-> [id |-> 0, success |-> FALSE, error |-> ""], touched |-> FALSE,
     dataBefore |-> 0, dataAfter |-> 0]

AgentCallsStarted ==
    Len(exchanges) + Cardinality({t \in Threads : caller[t].pc # "idle"})

\* the client right after newOptionalDriverAgentClient, its worker just started
AgentInit ==
    /\ client = [nextID |-> 0, mu |-> NoThread]
    /\ caller = [t \in Threads |-> IdleCaller]
    /\ stdinPipe = << >>
    /\ stdoutPipe = << >>
    /\ worker = [alive |-> TRUE, inst |-> NilInst, insts |-> << >>]
    /\ engineData = 0
    /\ hasApplier \in BOOLEAN
    /\ connected = FALSE
    /\ lastHandled = NoneHandled
    /\ exchanges = << >>

\* the agent part while another specification runs: no client, no worker
AgentDormant ==
    /\ client = [nextID |-> 0, mu |-> NoThread]
    /\ caller = [t \in Threads |-> IdleCaller]
    /\ stdinPipe = << >>
    /\ stdoutPipe = << >>
    /\ worker = [alive |-> FALSE, inst |-> NilInst, insts |-> << >>]
    /\ engineData = 0
    /\ hasApplier = FALSE
    /\ connected = FALSE
    /\ lastHandled = NoneHandled
    /\ exchanges = << >>

\* the return of call: the deferred c.mu.Unlock(), and what the caller got
CallReturn(t, outcome, respId) ==
    /\ client' = [client EXCEPT !.mu = NoThread]
    /\ caller' = [caller EXCEPT ![t] = IdleCaller]
    /\ exchanges' = Append(exchanges,
            [reqId |-> caller[t].req.id, respId |-> respId, outcome |-> outcome])

\* a goroutine enters client.call(req, ...)
CallEnter(t, req) ==
    /\ caller[t].pc = "idle"
    /\ AgentCallsStarted < MaxAgentCalls
    /\ caller' = [caller EXCEPT ![t] = [pc |-> "c_lock", req |-> req]]
    /\ UNCHANGED <<client, stdinPipe, stdoutPipe, worker, engineData, hasApplier,
                   connected, lastHandled, exchanges>>
    /\ UNCHANGED notAgent

\* a variant of CallLock that does not wait for c.mu
CallLockWithoutMutex(t) ==
    /\ caller[t].pc = "c_lock"
    /\ client' = [nextID |-> client.nextID + 1, mu |-> t]
    /\ caller' = [caller EXCEPT ![t].pc = "c_write", ![t].req.id = client.nextID + 1]
    /\ UNCHANGED <<stdinPipe, stdoutPipe, worker, engineData, hasApplier,
                   connected, lastHandled, exchanges>>
    /\ UNCHANGED notAgent

\* c.mu.Lock(); c.nextID++; req.ID = c.nextID
CallLock(t) ==
    /\ caller[t].pc = "c_lock"
    /\ client.mu = NoThread
    /\ client' = [nextID |-> client.nextID + 1, mu |-> t]
    /\ caller' = [caller EXCEPT ![t].pc = "c_write", ![t].req.id = client.nextID + 1]
    /\ UNCHANGED <<stdinPipe, stdoutPipe, worker, engineData, hasApplier,
                   connected, lastHandled, exchanges>>
    /\ UNCHANGED notAgent

\* a variant of CallWrite that gives the id back when the request cannot be marshalled
CallWriteReleasesID(t) ==
    /\ caller[t].pc = "c_write"
    /\ \E marshalOK \in BOOLEAN :
          IF ~marshalOK
             THEN /\ client' = [nextID |-> client.nextID - 1, mu |-> NoThread]
                  /\ caller' = [caller EXCEPT ![t] = IdleCaller]
                  /\ exchanges' = Append(exchanges,
                        [reqId |-> caller[t].req.id, respId |-> 0,
                         outcome |-> "marshal error"])
                  /\ UNCHANGED stdinPipe
             ELSE IF ~worker.alive
                     THEN /\ CallReturn(t, "write error", 0)
                          /\ UNCHANGED stdinPipe
                     ELSE /\ stdinPipe' = Append(stdinPipe, caller[t].req)
                          /\ caller' = [caller EXCEPT ![t].pc = "c_read"]
                          /\ UNCHANGED <<client, exchanges>>
    /\ UNCHANGED <<stdoutPipe, worker, engineData, hasApplier, connected, lastHandled>>
    /\ UNCHANGED notAgent

\* json.Marshal(req); c.stdin.Write(payload): writing to the pipe of a worker that
\* has exited fails
CallWrite(t) ==
    /\ caller[t].pc = "c_write"
    /\ \E marshalOK \in BOOLEAN :
          IF ~marshalOK
             THEN /\ CallReturn(t, "marshal error", 0)
                  /\ UNCHANGED stdinPipe
             ELSE IF ~worker.alive
                     THEN /\ CallReturn(t, "write error", 0)
                          /\ UNCHANGED stdinPipe
                     ELSE /\ stdinPipe' = Append(stdinPipe, caller[t].req)
                          /\ caller' = [caller EXCEPT ![t].pc = "c_read"]
                          /\ UNCHANGED <<client, exchanges>>
    /\ UNCHANGED <<stdoutPipe, worker, engineData, hasApplier, connected, lastHandled>>
    /\ UNCHANGED notAgent

\* c.reader.ReadBytes('\n') and what follows: it blocks while the worker lives and
\* has written nothing, fails at the end of the stream, and otherwise consumes one
\* response line
CallRead(t) ==
    /\ caller[t].pc = "c_read"
    /\ stdoutPipe # << >> \/ ~worker.alive
    /\ IF stdoutPipe # << >>
          THEN /\ stdoutPipe' = Tail(stdoutPipe)
               /\ CallReturn(t, IF Head(stdoutPipe).success THEN "ok" ELSE "failed",
                             Head(stdoutPipe).id)
          ELSE /\ CallReturn(t, "read error", 0)
               /\ UNCHANGED stdoutPipe
    /\ UNCHANGED <<stdinPipe, worker, engineData, hasApplier, connected, lastHandled>>
    /\ UNCHANGED notAgent

\* one turn of the worker's loop: scan a line, handleRequest, writeResponse
WorkerHandle ==
    /\ worker.alive
    /\ stdinPipe # << >>
    /\ \E out \in EngineOutcomes :
          LET req == Head(stdinPipe)
              r == handleRequest(req, worker, engineData, out)
          IN  /\ worker' = [worker EXCEPT !.inst = r.inst, !.insts = r.insts]
              /\ engineData' = r.data
              /\ stdoutPipe' = Append(stdoutPipe, r.resp)
              /\ connected' = CASE req.method = "connect" /\ r.resp.success -> TRUE
                                [] req.method = "close" /\ r.resp.success -> FALSE
                                [] OTHER -> connected
              /\ lastHandled' =
                    [method |-> req.method, hasChanges |-> req.hasChanges,
                     wasConnected |-> connected, instBefore |-> worker.inst,
                     resp |-> r.resp, touched |-> r.touched,
                     dataBefore |-> engineData, dataAfter |-> r.data]
    /\ stdinPipe' = Tail(stdinPipe)
    /\ UNCHANGED <<client, caller, hasApplier, exchanges>>
    /\ UNCHANGED notAgent

\* the worker process ends on its own (a crash of the driver, a kill)
WorkerExit ==
    /\ worker.alive
    /\ worker' = [worker EXCEPT !.alive = FALSE]
    /\ UNCHANGED <<client, caller, stdinPipe, stdoutPipe, engineData, hasApplier,
                   connected, lastHandled, exchanges>>
    /\ UNCHANGED notAgent

AgentNext ==
    \/ \E t \in Threads, req \in AgentRequests : CallEnter(t, req)
    \/ \E t \in Threads : CallLock(t)
    \/ \E t \in Threads : CallWrite(t)
    \/ \E t \in Threads : CallRead(t)
    \/ WorkerHandle
    \/ WorkerExit

----------------------------------------------------------------------------
(* Provisioning of an agent executable: ensureOptionalDriverAgentBinary *)

\* what os.Stat finds at a path
PathKinds == {"none", "file", "dir"}

\* A local candidate path is the target path itself, or another path holding
\* nothing, a directory or a regular file.
CandidateKinds == {"target", "missing", "dir", "file"}

RECURSIVE SeqsUpTo(_, _)
SeqsUpTo(S, n) ==
    IF n = 0 THEN {<< >>}
    ELSE LET shorter == SeqsUpTo(S, n - 1)
         IN  shorter \cup {Append(q, x) : q \in {r \in shorter : Len(r) = n - 1}, x \in S}

\* resolveOptionalDriverAgentCandidatePaths returns distinct paths, so the target
\* path is among them at most once
CandidateLists ==
    {c \in SeqsUpTo(CandidateKinds, MaxCandidates) :
        Cardinality({i \in 1..Len(c) : c[i] = "target"}) <= 1}

LatestURL == "https://github.com/Syngnat/GoNavi/releases/latest/download/asset"
VersionURL == "https://github.com/Syngnat/GoNavi/releases/download/v1/asset"

\* the caller's download URL, with the scheme url.Parse gives it
RawURLs ==
    {[text |-> "", scheme |-> ""],
     [text |-> "ftp://mirror/asset", scheme |-> "ftp"],
     [text |-> "https://mirror/asset", scheme |-> "https"],
     [text |-> LatestURL, scheme |-> "https"]}

\* a variant of appendURL that does not look at the URLs already in the list
appendURLKeepsDuplicates(candidates, value) ==
    IF value = "" THEN candidates ELSE Append(candidates, value)

\* appendURL of resolveOptionalDriverAgentDownloadURLs
appendURL(candidates, value) ==
    IF value = "" \/ \E i \in 1..Len(candidates) : candidates[i] = value
        THEN candidates
        ELSE Append(candidates, value)

\* resolveOptionalDriverAgentDownloadURLs(definition, rawURL)
resolveOptionalDriverAgentDownloadURLs(rawURL, versionKnown) ==
    LET explicit == IF rawURL.scheme \in {"http", "https"}
                       THEN appendURL(<< >>, rawURL.text) ELSE << >>
        versioned == IF versionKnown THEN appendURL(explicit, VersionURL) ELSE explicit
    IN  appendURL(versioned, LatestURL)

\* a variant of findExistingOptionalDriverAgentCandidate that finds nothing
findNoCandidate(candidates, i) == 0

\* findExistingOptionalDriverAgentCandidate: the index of the first candidate, from
\* i on, that is not the target path and is a regular file; 0 when there is none
RECURSIVE findExistingOptionalDriverAgentCandidate(_, _)
findExistingOptionalDriverAgentCandidate(candidates, i) ==
    IF i > Len(candidates) THEN 0
    ELSE IF candidates[i] = "target" THEN findExistingOptionalDriverAgentCandidate(candidates, i + 1)
    ELSE IF candidates[i] = "file" THEN i
    ELSE findExistingOptionalDriverAgentCandidate(candidates, i + 1)

\* copyAgentBinary writes a temporary file and renames it: it fails before the
\* rename, or after it (the last chmod), or not at all
CopyOutcomes == {"ok", "failed", "placed then failed"}

\* digest: the SHA-256 of the file's content
NoFile == [kind |-> "none", from |-> "", digest |-> ""]

\* definition.ChecksumPolicy, as normalizeDriverChecksumPolicy leaves it
ChecksumPolicies == {"strict", "warn", "off"}

\* SHA-256 digests: of the manifest (none, or one) and of the files handled
NoDigest == ""
Digests == {"sha-a", "sha-b"}

\* what a run finds at the target path: nothing, a directory, or a regular file
\* of some content
ExistingAt(kind) ==
    IF kind = "file"
        THEN {[kind |-> "file", from |-> "existing", digest |-> d] : d \in Digests}
        ELSE {[kind |-> kind, from |-> "", digest |-> NoDigest]}

\* hash: the digest returned; named: the sources the returned error names
IdleProv ==
    [pc |-> "stat", src |-> 0, urlIdx |-> 1, result |-> "", err |-> "", source |-> "",
     copies |-> 0, downloads |-> 0, builds |-> 0, progress |-> << >>, downloadErrs |-> 0,
     hash |-> NoDigest, named |-> << >>]

ProvInit ==
    /\ provEnv \in [target : PathKinds, candidates : CandidateLists,
                    rawURL : RawURLs, versionKnown : BOOLEAN,
                    policy : ChecksumPolicies, expectedSHA : {NoDigest, "sha-a"}]
    /\ fsTarget \in ExistingAt(provEnv.target)
    /\ prov = IdleProv

\* the provisioning part while another specification runs: no run
ProvDormant ==
    /\ provEnv = [target |-> "none", candidates |-> << >>,
                  rawURL |-> [text |-> "", scheme |-> ""], versionKnown |-> FALSE,
                  policy |-> "off", expectedSHA |-> NoDigest]
    /\ fsTarget = NoFile
    /\ prov = [IdleProv EXCEPT !.pc = "off"]

ProvReturnOK(p, source) == [p EXCEPT !.pc = "done", !.result = "ok", !.source = source]
ProvReturnErr(p, err) == [p EXCEPT !.pc = "done", !.result = "error", !.err = err]
ProvReturnHash(p, source, hash) == [ProvReturnOK(p, source) EXCEPT !.hash = hash]

\* a.emitDriverDownloadProgress(driverType, "downloading", percent, 100, ...)
emitProgress(p, percent) == [p EXCEPT !.progress = Append(p.progress, percent)]

\* scaleProgress(downloaded, total, start, end): the first value returned; the
\* second is 100 in every case
scaleProgress(downloaded, total, start, end) ==
    IF end <= start THEN end
    ELSE IF total <= 0 THEN start
    ELSE LET low == IF downloaded < 0 THEN 0 ELSE downloaded
             capped == IF low > total THEN total ELSE low
         IN  start + ((capped * (end - start)) \div total)

\* what downloadFileWithHash reports to its progress callback during one download:
\* nothing, or the bytes received so far and the total
ProgressReports == {<< >>, <<[downloaded |-> 50, total |-> 100]>>}

\* the progress callback of downloadOptionalDriverAgentBinary, once per report
RECURSIVE reportProgress(_, _)
reportProgress(p, reports) ==
    IF reports = << >> THEN p
    ELSE reportProgress(
            emitProgress(p, scaleProgress(Head(reports).downloaded,
                                          Head(reports).total, 20, 90)),
            Tail(reports))

\* a variant of ProvStat that does not look for a file at the target path
ProvStatIgnoresFile ==
    /\ prov.pc = "stat"
    /\ prov' = IF fsTarget.kind = "dir" THEN ProvReturnErr(prov, "path is a directory")
                ELSE [prov EXCEPT !.pc = "mkdir"]
    /\ UNCHANGED <<provEnv, fsTarget>>
    /\ UNCHANGED notProv

\* os.Stat(executablePath): a regular file is reused, with the digest
\* hashFileSHA256 reads from it; a directory is an error
ProvStat ==
    /\ prov.pc = "stat"
    /\ CASE fsTarget.kind = "file" ->
              \E hashOK \in BOOLEAN :
                  prov' = IF hashOK THEN ProvReturnHash(prov, "local://existing", fsTarget.digest)
                                    ELSE ProvReturnErr(prov, "hash of installed agent")
         [] fsTarget.kind = "dir" -> prov' = ProvReturnErr(prov, "path is a directory")
         [] OTHER -> prov' = [prov EXCEPT !.pc = "mkdir"]
    /\ UNCHANGED <<provEnv, fsTarget>>
    /\ UNCHANGED notProv

\* os.MkdirAll(filepath.Dir(executablePath)), then the progress event at 10 and
\* the search for a local candidate
ProvMkdir ==
    /\ prov.pc = "mkdir"
    /\ \E mkOK \in BOOLEAN :
          IF ~mkOK
             THEN prov' = ProvReturnErr(prov, "mkdir")
             ELSE LET found == findExistingOptionalDriverAgentCandidate(provEnv.candidates, 1)
                  IN  prov' = [emitProgress(prov, 10) EXCEPT
                                  !.pc = IF found # 0 THEN "copy" ELSE "download",
                                  !.src = found]
    /\ UNCHANGED <<provEnv, fsTarget>>
    /\ UNCHANGED notProv

\* copyAgentBinary(sourcePath, executablePath) and hashFileSHA256: a failure of
\* either is returned at once
ProvCopy ==
    /\ prov.pc = "copy"
    /\ \E outcome \in CopyOutcomes, hashOK \in BOOLEAN, hash \in Digests :
          LET p == [prov EXCEPT !.copies = prov.copies + 1] IN
          /\ fsTarget' = IF outcome = "failed" THEN fsTarget
                         ELSE [kind |-> "file", from |-> "copy", digest |-> hash]
          /\ prov' = IF outcome # "ok"
                        THEN [ProvReturnErr(p, "copy") EXCEPT !.named = <<"file://">>]
                     ELSE IF ~hashOK
                        THEN [ProvReturnErr(p, "hash of copied agent")
                                EXCEPT !.named = <<"file://">>]
                     ELSE ProvReturnHash(p, "file://", hash)
    /\ UNCHANGED provEnv
    /\ UNCHANGED notProv

\* a variant of ProvDownload that returns the error of the first failed download
ProvDownloadFailFast ==
    /\ prov.pc = "download"
    /\ prov.urlIdx <= Len(resolveOptionalDriverAgentDownloadURLs(provEnv.rawURL, provEnv.versionKnown))
    /\ \E outcome \in CopyOutcomes, hash \in Digests, reports \in ProgressReports :
          LET urls == resolveOptionalDriverAgentDownloadURLs(provEnv.rawURL, provEnv.versionKnown)
              p == [reportProgress(emitProgress(prov, 20), reports)
                        EXCEPT !.downloads = prov.downloads + 1] IN
          /\ fsTarget' = IF outcome = "failed" THEN fsTarget
                         ELSE [kind |-> "file", from |-> "download", digest |-> hash]
          /\ prov' = IF outcome = "ok"
                        THEN ProvReturnHash(p, urls[prov.urlIdx], hash)
                        ELSE [ProvReturnErr(p, "download and build") EXCEPT
                                !.downloadErrs = prov.downloadErrs + 1,
                                !.named = Append(prov.named, urls[prov.urlIdx])]
    /\ UNCHANGED provEnv
    /\ UNCHANGED notProv

\* one turn of the loop over downloadURLs: the progress event at 20 and
\* downloadOptionalDriverAgentBinary, which reports the progress of the download,
\* renames the downloaded file into place
\* and returns the digest downloadFileWithHash computed; the digest is compared with
\* nothing
ProvDownload ==
    /\ prov.pc = "download"
    /\ prov.urlIdx <= Len(resolveOptionalDriverAgentDownloadURLs(provEnv.rawURL, provEnv.versionKnown))
    /\ \E outcome \in CopyOutcomes, hash \in Digests, reports \in ProgressReports :
          LET urls == resolveOptionalDriverAgentDownloadURLs(provEnv.rawURL, provEnv.versionKnown)
              p == [reportProgress(emitProgress(prov, 20), reports)
                        EXCEPT !.downloads = prov.downloads + 1] IN
          /\ fsTarget' = IF outcome = "failed" THEN fsTarget
                         ELSE [kind |-> "file", from |-> "download", digest |-> hash]
          /\ prov' = IF outcome = "ok"
                        THEN ProvReturnHash(p, urls[prov.urlIdx], hash)
                        ELSE [p EXCEPT !.urlIdx = prov.urlIdx + 1,
                                       !.downloadErrs = prov.downloadErrs + 1,
                                       !.named = Append(prov.named, urls[prov.urlIdx])]
    /\ UNCHANGED provEnv
    /\ UNCHANGED notProv

\* after the last URL: the progress event at 92 and buildOptionalDriverAgentFromSource
ProvBuild ==
    /\ prov.pc = "download"
    /\ prov.urlIdx > Len(resolveOptionalDriverAgentDownloadURLs(provEnv.rawURL, provEnv.versionKnown))
    /\ \E outcome \in CopyOutcomes, hash \in Digests :
          LET p == [emitProgress(prov, 92) EXCEPT !.builds = prov.builds + 1] IN
          /\ fsTarget' = IF outcome = "failed" THEN fsTarget
                         ELSE [kind |-> "file", from |-> "build", digest |-> hash]
          /\ prov' = IF outcome = "ok"
                        THEN ProvReturnHash(p, "local://go-build", hash)
                        ELSE [ProvReturnErr(p, "download and build") EXCEPT
                                !.named = Append(prov.named, "local://go-build")]
    /\ UNCHANGED provEnv
    /\ UNCHANGED notProv

ProvNext ==
    \/ ProvStat
    \/ ProvMkdir
    \/ ProvCopy
    \/ ProvDownload
    \/ ProvBuild

----------------------------------------------------------------------------
(* Driver packages: pinned packages, manifest, effective packages *)

PolicyStrict == <<"s", "t", "r", "i", "c", "t">>
PolicyWarn == <<"w", "a", "r", "n">>
PolicyOff == <<"o", "f", "f">>
EngineGo == <<"g", "o">>
EngineExternal == <<"e", "x", "t", "e", "r", "n", "a", "l">>
VersionEmbedded == <<"g", "o", "-", "e", "m", "b", "e", "d", "d", "e", "d">>

\* normalizeDriverType of package app
normalizeDriverType(driverType) ==
    LET normalized == ToLower(TrimSpace(driverType)) IN
    CASE normalized = TypeDoris      -> TypeDiros
      [] normalized = <<"p", "o", "s", "t", "g", "r", "e", "s", "q", "l">> -> TypePostgres
      [] OTHER                           -> normalized

normalizeDriverEngine(value) ==
    LET v == Text(ToLower(TrimSpace(value))) IN
    CASE v = "go" -> EngineGo
      [] v = "jdbc" -> EngineExternal
      [] v \in {"external", "exec", "binary"} -> EngineExternal
      [] OTHER -> << >>

normalizeDriverChecksumPolicy(value) ==
    LET v == Text(ToLower(TrimSpace(value))) IN
    CASE v = "strict" -> PolicyStrict
      [] v = "off" -> PolicyOff
      [] v = "warn" -> PolicyWarn
      [] OTHER -> PolicyWarn

\* pinnedDriverPackage{}: the zero value, also what a map gives for a missing key
EmptyPackage ==
    [Version |-> << >>, DownloadURL |-> << >>, SHA256 |-> << >>,
     Policy |-> << >>, Engine |-> << >>]

\* a Go map from type name (its text) to package
MapGet(m, k) == IF k \in DOMAIN m THEN m[k] ELSE EmptyPackage
MapPut(m, k, v) == [x \in (DOMAIN m) \cup {k} |-> IF x = k THEN v ELSE m[x]]
EmptyMap == [x \in {} |-> EmptyPackage]

pinnedDriverPackageMap ==
    [k \in {"postgres"} |->
        [EmptyPackage EXCEPT !.Version = VersionEmbedded, !.Policy = PolicyOff,
                             !.Engine = EngineGo]]

copyPinnedPackageMap(source) ==
    [k \in DOMAIN source |->
        [Version |-> TrimSpace(source[k].Version),
         DownloadURL |-> TrimSpace(source[k].DownloadURL),
         SHA256 |-> TrimSpace(source[k].SHA256),
         Policy |-> normalizeDriverChecksumPolicy(source[k].Policy),
         Engine |-> normalizeDriverEngine(source[k].Engine)]]

\* the default engine of loadManifestPackages: engine, defaultEngine, default_engine
manifestDefaultEngine(manifest) ==
    IF normalizeDriverEngine(manifest.Engine) # << >>
        THEN normalizeDriverEngine(manifest.Engine)
    ELSE IF normalizeDriverEngine(manifest.DefaultEngine) # << >>
        THEN normalizeDriverEngine(manifest.DefaultEngine)
    ELSE normalizeDriverEngine(manifest.DefaultEngine2)

\* the package loadManifestPackages makes of one driverManifestItem
manifestItemPackage(item, defaultEngine) ==
    [Version |-> TrimSpace(item.Version),
     DownloadURL |-> IF TrimSpace(item.DownloadURL) # << >>
                        THEN TrimSpace(item.DownloadURL)
                        ELSE TrimSpace(item.DownloadURL2),
     SHA256 |-> TrimSpace(item.SHA256),
     Policy |-> normalizeDriverChecksumPolicy(
                    IF TrimSpace(item.ChecksumPolicy) # << >>
                        THEN TrimSpace(item.ChecksumPolicy)
                        ELSE TrimSpace(item.ChecksumPolicy2)),
     Engine |-> IF normalizeDriverEngine(item.Engine) # << >>
                   THEN normalizeDriverEngine(item.Engine)
                   ELSE defaultEngine]

\* the loop of loadManifestPackages over manifest.Drivers, in the order the map
\* range yields its entries
RECURSIVE loadManifestDrivers(_, _, _)
loadManifestDrivers(result, drivers, defaultEngine) ==
    IF drivers = << >> THEN result
    ELSE LET normalizedType == normalizeDriverType(Head(drivers).key)
             next == IF normalizedType = << >>
                        THEN result
                        ELSE MapPut(result, Text(normalizedType),
                                    manifestItemPackage(Head(drivers).item, defaultEngine))
         IN  loadManifestDrivers(next, Tail(drivers), defaultEngine)

\* loadManifestPackages, for a manifest whose content was read and parsed
loadManifestPackages(manifest) ==
    loadManifestDrivers(EmptyMap, manifest.Drivers, manifestDefaultEngine(manifest))

\* a variant of mergePackage that takes the manifest's version even when it is empty
mergePackageTakingVersion(base, item) ==
    [Version |-> TrimSpace(item.Version),
     DownloadURL |-> IF TrimSpace(item.DownloadURL) # << >>
                        THEN TrimSpace(item.DownloadURL) ELSE base.DownloadURL,
     SHA256 |-> IF TrimSpace(item.SHA256) # << >> THEN TrimSpace(item.SHA256) ELSE base.SHA256,
     Policy |-> IF TrimSpace(item.Policy) # << >>
                   THEN normalizeDriverChecksumPolicy(item.Policy) ELSE base.Policy,
     Engine |-> IF TrimSpace(item.Engine) # << >>
                   THEN normalizeDriverEngine(item.Engine) ELSE base.Engine]

\* the field-by-field override of resolveEffectiveDriverPackages and of
\* resolvedPinnedPackage: a field of item replaces base's when it is not blank
mergePackage(base, item) ==
    [Version |-> IF TrimSpace(item.Version) # << >> THEN TrimSpace(item.Version) ELSE base.Version,
     DownloadURL |-> IF TrimSpace(item.DownloadURL) # << >>
                        THEN TrimSpace(item.DownloadURL) ELSE base.DownloadURL,
     SHA256 |-> IF TrimSpace(item.SHA256) # << >> THEN TrimSpace(item.SHA256) ELSE base.SHA256,
     Policy |-> IF TrimSpace(item.Policy) # << >>
                   THEN normalizeDriverChecksumPolicy(item.Policy) ELSE base.Policy,
     Engine |-> IF TrimSpace(item.Engine) # << >>
                   THEN normalizeDriverEngine(item.Engine) ELSE base.Engine]

\* the loop of resolveEffectiveDriverPackages over manifestPackages, whose keys are
\* distinct normalized names
RECURSIVE mergeManifestPackages(_, _, _)
mergeManifestPackages(effective, manifestPackages, keys) ==
    IF keys = {} THEN effective
    ELSE LET driverType == CHOOSE k \in keys : TRUE
             normalizedType == Text(normalizeDriverType(<<driverType>>))
         IN  mergeManifestPackages(
                 MapPut(effective, normalizedType,
                        mergePackage(MapGet(effective, normalizedType),
                                     manifestPackages[driverType])),
                 manifestPackages, keys \ {driverType})

\* resolveEffectiveDriverPackages, given what resolveManifestDriverPackages returned
resolveEffectiveDriverPackages(manifestPackages, loadOK) ==
    IF ~loadOK
        THEN copyPinnedPackageMap(pinnedDriverPackageMap)
        ELSE mergeManifestPackages(copyPinnedPackageMap(pinnedDriverPackageMap),
                                   manifestPackages, DOMAIN manifestPackages)

driverPinnedPackage(driverType) ==
    LET k == Text(normalizeDriverType(driverType)) IN
    IF k \notin DOMAIN pinnedDriverPackageMap THEN EmptyPackage
    ELSE copyPinnedPackageMap(pinnedDriverPackageMap)[k]

\* resolvedPinnedPackage(driverType, packages)
resolvedPinnedPackage(driverType, packages) ==
    LET normalizedType == Text(normalizeDriverType(driverType))
        pinned == driverPinnedPackage(driverType)
        spec == IF normalizedType \in DOMAIN packages
                   THEN mergePackage(pinned, packages[normalizedType])
                   ELSE pinned
    IN  IF normalizedType = "postgres"
           THEN [spec EXCEPT !.Engine = EngineGo,
                             !.Version = IF TrimSpace(spec.Version) = << >>
                                            THEN VersionEmbedded ELSE spec.Version,
                             !.Policy = IF TrimSpace(spec.Policy) = << >>
                                           THEN PolicyOff ELSE spec.Policy]
           ELSE spec

\* buildOptionalGoDriverDefinition(driverType, driverName, packages)
buildOptionalGoDriverDefinition(driverType, packages) ==
    LET spec == resolvedPinnedPackage(driverType, packages) IN
    [Type |-> normalizeDriverType(driverType),
     PinnedVersion |-> TrimSpace(spec.Version),
     DefaultDownloadURL |-> TrimSpace(spec.DownloadURL),
     DownloadSHA256 |-> TrimSpace(spec.SHA256),
     ChecksumPolicy |-> normalizeDriverChecksumPolicy(spec.Policy)]

NoDefinition ==
    [Type |-> << >>, PinnedVersion |-> << >>, DefaultDownloadURL |-> << >>,
     DownloadSHA256 |-> << >>, ChecksumPolicy |-> << >>]

\* the keys a manifest of this model uses: a pinned engine, an alias of it, an
\* optional engine, and a blank key
ManifestKeys == {TypePostgres, <<" ", "P", "o", "s", "t", "g", "r", "e", "S", "Q", "L">>, <<"d", "u", "c", "k", "d", "b">>, <<" ">>}

EmptyItem ==
    [Version |-> << >>, DownloadURL |-> << >>, DownloadURL2 |-> << >>, SHA256 |-> << >>,
     ChecksumPolicy |-> << >>, ChecksumPolicy2 |-> << >>, Engine |-> << >>]

\* driverManifestItem values: nothing, a download URL under either or both of its
\* names, and a download URL together with each other field
ManifestItems ==
    { EmptyItem,
      [EmptyItem EXCEPT !.DownloadURL = <<"u">>],
      [EmptyItem EXCEPT !.DownloadURL2 = <<"v">>],
      [EmptyItem EXCEPT !.DownloadURL = <<" ", "u">>, !.DownloadURL2 = <<"v">>],
      [EmptyItem EXCEPT !.DownloadURL = <<"u">>, !.Version = <<" ">>],
      [EmptyItem EXCEPT !.Version = <<"2">>],
      [EmptyItem EXCEPT !.DownloadURL = <<"u">>, !.Version = <<"2", " ">>],
      [EmptyItem EXCEPT !.DownloadURL = <<"u">>, !.SHA256 = <<"a">>],
      [EmptyItem EXCEPT !.DownloadURL = <<"u">>, !.ChecksumPolicy = PolicyStrict],
      [EmptyItem EXCEPT !.DownloadURL = <<"u">>, !.ChecksumPolicy2 = PolicyOff],
      [EmptyItem EXCEPT !.DownloadURL = <<"u">>, !.Engine = <<"j", "d", "b", "c">>],
      [EmptyItem EXCEPT !.DownloadURL = <<"u">>, !.Version = <<"2">>, !.SHA256 = <<"a">>,
                        !.ChecksumPolicy = PolicyStrict, !.Engine = EngineGo] }

ManifestEntries == [key : ManifestKeys, item : ManifestItems]

\* the JSON object "drivers" has distinct keys
ManifestDrivers ==
    {d \in SeqsUpTo(ManifestEntries, MaxManifestEntries) :
        \A i, j \in 1..Len(d) : i # j => d[i].key # d[j].key}

Manifests ==
    [Engine : {<< >>, EngineGo}, DefaultEngine : {<< >>}, DefaultEngine2 : {<< >>, <<"j", "d", "b", "c">>},
     Drivers : ManifestDrivers]

\* the types a definition is built for
DefinedTypes == {<<"d", "u", "c", "k", "d", "b">>, TypePostgres}

IdlePkg ==
    [pc |-> "load", manifestPackages |-> EmptyMap, loadOK |-> FALSE,
     effective |-> EmptyMap, definition |-> NoDefinition]

PkgInit ==
    \E m \in Manifests : pkg = [IdlePkg EXCEPT !.pc = "load"] @@ [manifest |-> m]

\* the package part while another specification runs
PkgDormant ==
    pkg = [IdlePkg EXCEPT !.pc = "off"]
            @@ [manifest |-> [Engine |-> << >>, DefaultEngine |-> << >>,
                              DefaultEngine2 |-> << >>, Drivers |-> << >>]]

\* resolveManifestDriverPackages: the manifest is read and parsed, or that fails
PkgLoad ==
    /\ pkg.pc = "load"
    /\ \E ok \in BOOLEAN :
          pkg' = [pkg EXCEPT !.pc = "resolve", !.loadOK = ok,
                             !.manifestPackages =
                                  IF ok THEN loadManifestPackages(pkg.manifest) ELSE EmptyMap]
    /\ UNCHANGED notPkg

\* resolveEffectiveDriverPackages(manifestURL), after the manifest was resolved
PkgResolve ==
    /\ pkg.pc = "resolve"
    /\ pkg' = [pkg EXCEPT !.pc = "define",
                          !.effective = resolveEffectiveDriverPackages(pkg.manifestPackages,
                                                                       pkg.loadOK)]
    /\ UNCHANGED notPkg

\* resolveDriverDefinitionWithPackages builds the definition of an optional engine
PkgDefine ==
    /\ pkg.pc = "define"
    /\ \E t \in DefinedTypes :
          pkg' = [pkg EXCEPT !.pc = "done",
                             !.definition = buildOptionalGoDriverDefinition(t, pkg.effective)]
    /\ UNCHANGED notPkg

PkgNext ==
    \/ PkgLoad
    \/ PkgResolve
    \/ PkgDefine

----------------------------------------------------------------------------
(* DirosDB.Connect: the addresses of a config are tried in turn *)

\* entries of config.Hosts / config.Host: "a" and "a:9030" name one address, "b:9031"
\* another, "bad" cannot be parsed as host and port
HostEntries == {"a", "a:9030", "b:9031", "bad"}

NoAddress == ""

\* parseHostPortWithDefault followed by normalizeMySQLAddress: the normalized
\* address of an entry, NoAddress when the entry does not parse
normalizedAddress(entry) ==
    CASE entry = "a"      -> "a:9030"
      [] entry = "a:9030" -> "a:9030"
      [] entry = "b:9031" -> "b:9031"
      [] OTHER            -> NoAddress

HostLists == SeqsUpTo(HostEntries, MaxHosts)

RECURSIVE dedupe(_, _)
\* the loop of collectDirosAddresses: unparsable entries and addresses already seen
\* are left out, the others keep their order
dedupe(candidates, result) ==
    IF candidates = << >> THEN result
    ELSE LET normalized == normalizedAddress(Head(candidates)) IN
         IF normalized = NoAddress \/ \E i \in DOMAIN result : result[i] = normalized
            THEN dedupe(Tail(candidates), result)
            ELSE dedupe(Tail(candidates), Append(result, normalized))

\* a variant of collectDirosAddresses that lists the addresses last to first
RECURSIVE reverse(_)
reverse(seq) == IF seq = << >> THEN << >> ELSE Append(reverse(Tail(seq)), Head(seq))
collectDirosAddressesReversed(config) ==
    reverse(dedupe(IF Len(config.Hosts) > 0 THEN config.Hosts ELSE <<config.Host>>, << >>))

\* collectDirosAddresses(config)
collectDirosAddresses(config) ==
    dedupe(IF Len(config.Hosts) > 0 THEN config.Hosts ELSE <<config.Host>>, << >>)

\* resolveDirosCredential(config, addressIndex); addressIndex counts from 0
resolveDirosCredential(config, addressIndex) ==
    IF addressIndex > 0 /\ config.MySQLReplicaUser # "" THEN config.MySQLReplicaUser
    ELSE IF config.User = "" /\ config.MySQLReplicaUser # "" THEN config.MySQLReplicaUser
    ELSE config.User

\* the configs: URI is empty, so applyDirosURI returns the config as it is
DirosConfigs ==
    [Hosts : HostLists, Host : {"a", "bad"}, User : {"", "root"},
     MySQLReplicaUser : {"", "reader"}]

AttemptOutcomes == {"open fails", "ping fails", "ok"}

IdleDiros ==
    [pc |-> "start", addresses |-> << >>, index |-> 1, attempts |-> << >>,
     closed |-> {}, conn |-> NoAddress, result |-> ""]

DirosInit ==
    \E config \in DirosConfigs : diros = IdleDiros @@ [config |-> config]

DirosDormant ==
    diros = [IdleDiros EXCEPT !.pc = "off"]
              @@ [config |-> [Hosts |-> << >>, Host |-> "", User |-> "",
                              MySQLReplicaUser |-> ""]]

\* Connect, up to the loop: the addresses are collected; none gives the error
DirosCollect ==
    /\ diros.pc = "start"
    /\ LET addresses == collectDirosAddresses(diros.config) IN
       diros' = [diros EXCEPT !.addresses = addresses,
                              !.pc = IF addresses = << >> THEN "done" ELSE "loop",
                              !.result = IF addresses = << >> THEN "no address" ELSE ""]
    /\ UNCHANGED notDiros

\* one turn of the loop of Connect on addresses[index]; reparsed: the normalized
\* address parses again
DirosTry ==
    /\ diros.pc = "loop"
    /\ diros.index <= Len(diros.addresses)
    /\ LET address == diros.addresses[diros.index]
           attempt(outcome) ==
               [address |-> address, outcome |-> outcome,
                user |-> resolveDirosCredential(diros.config, diros.index - 1)]
       IN
       \E reparsed \in BOOLEAN, outcome \in AttemptOutcomes :
           IF ~reparsed
               THEN diros' = [diros EXCEPT !.index = @ + 1]
           ELSE IF outcome = "open fails"
               THEN diros' = [diros EXCEPT !.index = @ + 1,
                                           !.attempts = Append(@, attempt(outcome))]
           ELSE IF outcome = "ping fails"
               THEN diros' = [diros EXCEPT !.index = @ + 1,
                                           !.closed = @ \cup {address},
                                           !.attempts = Append(@, attempt(outcome))]
           ELSE diros' = [diros EXCEPT !.conn = address,
                                       !.attempts = Append(@, attempt(outcome)),
                                       !.pc = "done",
                                       !.result = "ok"]
    /\ UNCHANGED notDiros

\* Connect after the loop: every address failed or was skipped
DirosExhausted ==
    /\ diros.pc = "loop"
    /\ diros.index > Len(diros.addresses)
    /\ diros' = [diros EXCEPT !.pc = "done",
                              !.result = IF diros.attempts = << >>
                                            THEN "no address" ELSE "all failed"]
    /\ UNCHANGED notDiros

DirosNext ==
    \/ DirosCollect
    \/ DirosTry
    \/ DirosExhausted

----------------------------------------------------------------------------
(* Driver runtime support: driver_support (package db) and the App operations *)

TypeRedis == <<"r", "e", "d", "i", "s">>
TypeOracle == <<"o", "r", "a", "c", "l", "e">>
TypeMariaDB == <<"m", "a", "r", "i", "a", "d", "b">>
TypeDuckDB == <<"d", "u", "c", "k", "d", "b">>
TypeCustom == <<"c", "u", "s", "t", "o", "m">>

\* engine names are kept as character sequences, as the normalizations return them
coreBuiltinDrivers == {TypeMySQL, TypeRedis, TypeOracle, TypePostgres}

optionalGoDrivers ==
    {TypeMariaDB, TypeDiros, <<"s", "p", "h", "i", "n", "x">>,
     <<"s", "q", "l", "s", "e", "r", "v", "e", "r">>,
     <<"s", "q", "l", "i", "t", "e">>, TypeDuckDB,
     <<"d", "a", "m", "e", "n", "g">>,
     <<"k", "i", "n", "g", "b", "a", "s", "e">>,
     <<"h", "i", "g", "h", "g", "o">>,
     <<"v", "a", "s", "t", "b", "a", "s", "e">>,
     <<"m", "o", "n", "g", "o", "d", "b">>,
     <<"t", "d", "e", "n", "g", "i", "n", "e">>}

\* the definitions of allDriverDefinitionsWithPackages marked BuiltIn
BuiltInDefinitions == {TypeMySQL, TypeOracle, TypeRedis, TypePostgres}

IsOptionalGoDriver(driverType) ==
    normalizeRuntimeDriverType(driverType) \in optionalGoDrivers

IsBuiltinDriver(driverType) ==
    normalizeRuntimeDriverType(driverType) \in coreBuiltinDrivers

\* the driver root directories of this model
DriverDirs == {"d1", "d2"}

\* the engines whose install directory the model keeps on disk
DiskEngines == {TypePostgres, TypeMariaDB}

NoFiles == [marker |-> "none", exe |-> "none"]

\* {root}/{engine}/installed.json and {root}/{engine}/{engine}-driver-agent
InstallDirOf(d, dir, engine) ==
    IF engine \in DiskEngines THEN d.disk[dir][engine] ELSE NoFiles

\* the builds: slim (no optional engine compiled in) and full
Builds == {{}, optionalGoDrivers}

\* IsOptionalGoDriverBuildIncluded: what the build says of the normalized type
IsOptionalGoDriverBuildIncluded(d, driverType) ==
    normalizeRuntimeDriverType(driverType) \in d.build

\* resolveExternalDriverRoot creates the root directory; that cannot fail when the
\* directory is there, holding a file of an engine
RootOutcomes(d, dir) ==
    IF \E engine \in DiskEngines :
          d.disk[dir][engine].marker # "none" \/ d.disk[dir][engine].exe # "none"
        THEN {TRUE}
        ELSE BOOLEAN

\* optionalGoDriverInstalled(driverType), rootOK: ResolveOptionalGoDriverMarkerPath
\* could resolve the root
optionalGoDriverInstalled(d, driverType, rootOK) ==
    /\ IsOptionalGoDriver(driverType)
    /\ rootOK
    /\ InstallDirOf(d, d.dir, normalizeRuntimeDriverType(driverType)).marker = "file"

Answer(ok, reason) == [available |-> ok, reason |-> reason]

\* optionalGoDriverRuntimeReady(driverType)
optionalGoDriverRuntimeReady(d, driverType, rootOK) ==
    IF ~IsOptionalGoDriver(driverType) THEN Answer(TRUE, "")
    ELSE IF ~rootOK THEN Answer(FALSE, "agent path cannot be resolved, reinstall")
    ELSE IF InstallDirOf(d, d.dir, normalizeRuntimeDriverType(driverType)).exe # "file"
        THEN Answer(FALSE, "agent missing, reinstall")
    ELSE Answer(TRUE, "")

\* a variant of DriverRuntimeSupportStatus that asks for the install marker of every
\* engine
DriverRuntimeSupportStatusAllManaged(d, driverType, rootOK1, rootOK2) ==
    LET normalized == normalizeRuntimeDriverType(driverType) IN
    IF normalized = << >> THEN Answer(FALSE, "unrecognized data source type")
    ELSE IF InstallDirOf(d, d.dir, normalized).marker = "file"
        THEN Answer(TRUE, "")
    ELSE Answer(FALSE, "driver not enabled, install it first")

\* a variant of DriverRuntimeSupportStatus that does not ask for the agent executable
DriverRuntimeSupportStatusNoAgentCheck(d, driverType, rootOK1, rootOK2) ==
    LET normalized == normalizeRuntimeDriverType(driverType) IN
    IF normalized = << >> THEN Answer(FALSE, "unrecognized data source type")
    ELSE IF normalized = TypeCustom THEN Answer(TRUE, "")
    ELSE IF IsBuiltinDriver(normalized) THEN Answer(TRUE, "")
    ELSE IF IsOptionalGoDriver(normalized)
        THEN IF ~IsOptionalGoDriverBuildIncluded(d, normalized)
                THEN Answer(FALSE, "slim build, install the full version")
             ELSE IF optionalGoDriverInstalled(d, normalized, rootOK1)
                THEN Answer(TRUE, "")
             ELSE Answer(FALSE, "driver not enabled, install it first")
    ELSE Answer(TRUE, "")

\* DriverRuntimeSupportStatus(driverType); rootOK1 and rootOK2 are the outcomes of
\* the two resolutions of the driver root it makes
DriverRuntimeSupportStatus(d, driverType, rootOK1, rootOK2) ==
    LET normalized == normalizeRuntimeDriverType(driverType) IN
    IF normalized = << >> THEN Answer(FALSE, "unrecognized data source type")
    ELSE IF normalized = TypeCustom THEN Answer(TRUE, "")
    ELSE IF IsBuiltinDriver(normalized) THEN Answer(TRUE, "")
    ELSE IF IsOptionalGoDriver(normalized)
        THEN IF ~IsOptionalGoDriverBuildIncluded(d, normalized)
                THEN Answer(FALSE, "slim build, install the full version")
             ELSE IF optionalGoDriverInstalled(d, normalized, rootOK1)
                THEN optionalGoDriverRuntimeReady(d, normalized, rootOK2)
             ELSE Answer(FALSE, "driver not enabled, install it first")
    ELSE Answer(TRUE, "")

\* one item of GetDriverStatusList, for a definition; installed.json is read in
\* resolvedDir, metaReadable: it could be read and parsed
driverStatusItem(d, resolvedDir, definitionType, rootOK1, rootOK2, metaReadable) ==
    LET builtIn == definitionType \in BuiltInDefinitions
        runtime == DriverRuntimeSupportStatus(d, definitionType, rootOK1, rootOK2)
        packageMetaExists ==
            /\ InstallDirOf(d, resolvedDir,
                            normalizeDriverType(definitionType)).marker = "file"
            /\ metaReadable
        packageInstalled ==
            \/ builtIn
            \/ packageMetaExists
            \/ runtime.available /\ IsOptionalGoDriver(definitionType)
    IN  [Type |-> definitionType, BuiltIn |-> builtIn,
         RuntimeAvailable |-> runtime.available,
         PackageInstalled |-> packageInstalled,
         Connectable |-> runtime.available]

\* the types the operations and queries are called with
DriverTypeInputs ==
    {TypeMySQL, TypeRedis, TypeOracle,
     TypePostgres, <<" ", "P", "o", "s", "t", "g", "r", "e", "S", "Q", "L">>,
     TypeMariaDB, <<"M", "a", "r", "i", "a", "D", "B", " ">>,
     TypeDuckDB, TypeCustom, <<"f", "o", "o">>, <<" ">>}

\* the types the install and remove operations are called with
OperationTypes ==
    {TypeMySQL, <<" ", "P", "o", "s", "t", "g", "r", "e", "S", "Q", "L">>,
     <<"M", "a", "r", "i", "a", "D", "B", " ">>, <<"f", "o", "o">>}

\* the directory arguments: "" stands for the directory in force
DirInputs == {""} \cup DriverDirs

\* the directory arguments of the install, remove and list operations
DownloadDirInputs == {"", "d2"}

DefaultDriverDir == "d1"

\* resolveDriverDownloadDirectory / resolveExternalDriverRoot: the directory named
resolvedDirOf(d, directory) == IF directory = "" THEN d.dir ELSE directory

\* SetExternalDriverDownloadDirectory(resolvedDir): the default when the root cannot
\* be resolved
SetExternalDriverDownloadDirectory(d, resolvedDir, setOK) ==
    [d EXCEPT !.dir = IF setOK THEN resolvedDir ELSE DefaultDriverDir]

\* resolveDriverDefinition: the definition of the normalized type, if any
HasDefinition(driverType) ==
    normalizeDriverType(driverType) \in BuiltInDefinitions \cup optionalGoDrivers

DefinitionBuiltIn(driverType) ==
    normalizeDriverType(driverType) \in BuiltInDefinitions

\* ensureOptionalDriverBuildAvailable(definition) returns no error
ensureOptionalDriverBuildAvailable(d, driverType) ==
    \/ ~IsOptionalGoDriver(normalizeDriverType(driverType))
    \/ IsOptionalGoDriverBuildIncluded(d, normalizeDriverType(driverType))

NoItems == << >>

\* what the last operation or query returned, with the facts it was asked about
Returned(op, driverType, ok) ==
    [op |-> op, type |-> driverType, ok |-> ok, available |-> FALSE, reason |-> "",
     items |-> NoItems, dir |-> "", had |-> NoFiles]

WithFiles(d, dir, engine, files) ==
    IF engine \in DiskEngines
        THEN [d EXCEPT !.disk[dir][engine] = files]
        ELSE d

DrvInit ==
    /\ \E build \in Builds :
        drv = [dir |-> DefaultDriverDir,
               disk |-> [dir \in DriverDirs |-> [engine \in DiskEngines |-> NoFiles]],
               build |-> build,
               changes |-> 0,
               last |-> Returned("none", << >>, TRUE)]

DrvDormant ==
    drv = [dir |-> DefaultDriverDir,
           disk |-> [dir \in DriverDirs |-> [engine \in DiskEngines |-> NoFiles]],
           build |-> {},
           changes |-> 0,
           last |-> Returned("off", << >>, TRUE)]

\* App.ConfigureDriverRuntimeDirectory(directory)
ConfigureDriverRuntimeDirectory ==
    /\ \E directory \in DirInputs :
        LET resolvedDir == resolvedDirOf(drv, directory) IN
        \E rootOK \in RootOutcomes(drv, resolvedDir), setOK \in RootOutcomes(drv, resolvedDir) :
            IF ~rootOK
                THEN drv' = [drv EXCEPT !.last = Returned("configure", << >>, FALSE)]
                ELSE drv' = [SetExternalDriverDownloadDirectory(drv, resolvedDir, setOK)
                                EXCEPT !.last = Returned("configure", << >>, TRUE)]
    /\ UNCHANGED notDrv

\* what a failed os.WriteFile leaves at the path of installed.json: what was there,
\* or a file it created or truncated
WriteFileLeftovers(marker) == IF marker = "dir" THEN {"dir"} ELSE {marker, "file"}

\* App.DownloadDriverPackage(driverType, downloadURL, downloadDir); agentOK: the agent
\* binary was provided at the executable path, writeOK: installed.json was written
DownloadDriverPackage ==
    /\ \E driverType \in OperationTypes, directory \in DownloadDirInputs :
        /\ LET engine == normalizeDriverType(driverType)
               resolvedDir == resolvedDirOf(drv, directory)
               refused == [drv EXCEPT !.last = Returned("download", << >>, FALSE)]
           IN
           IF \/ ~HasDefinition(driverType)
              \/ DefinitionBuiltIn(driverType)
              \/ ~ensureOptionalDriverBuildAvailable(drv, driverType)
            THEN drv' = refused
            ELSE
            \E rootOK \in RootOutcomes(drv, resolvedDir),
               setOK \in RootOutcomes(drv, resolvedDir),
               agentOK \in BOOLEAN, writeOK \in BOOLEAN :
                IF ~rootOK THEN drv' = refused
                ELSE
                LET set == SetExternalDriverDownloadDirectory(drv, resolvedDir, setOK)
                    files == InstallDirOf(drv, resolvedDir, engine)
                    placed == [files EXCEPT !.exe = "file"]
                IN
                IF ~agentOK \/ files.exe = "dir"
                    THEN drv' = [set EXCEPT !.last = Returned("download", << >>, FALSE)]
                ELSE IF ~writeOK \/ files.marker = "dir"
                    THEN \E left \in WriteFileLeftovers(files.marker) :
                            drv' = [WithFiles(set, resolvedDir, engine,
                                              [placed EXCEPT !.marker = left])
                                    EXCEPT !.last = Returned("download", << >>, FALSE)]
                ELSE drv' = [WithFiles(set, resolvedDir, engine,
                                       [placed EXCEPT !.marker = "file"])
                                EXCEPT !.last = Returned("download", << >>, TRUE)]
    /\ UNCHANGED notDrv

\* App.InstallLocalDriverPackage(driverType, filePath, downloadDir): writes
\* installed.json only
InstallLocalDriverPackage ==
    /\ \E driverType \in OperationTypes, directory \in DownloadDirInputs :
        /\ LET engine == normalizeDriverType(driverType)
               resolvedDir == resolvedDirOf(drv, directory)
               refused == [drv EXCEPT !.last = Returned("install", << >>, FALSE)]
           IN
           IF \/ ~HasDefinition(driverType)
              \/ DefinitionBuiltIn(driverType)
              \/ ~ensureOptionalDriverBuildAvailable(drv, driverType)
            THEN drv' = refused
            ELSE
            \E rootOK \in RootOutcomes(drv, resolvedDir),
               setOK \in RootOutcomes(drv, resolvedDir), writeOK \in BOOLEAN :
                IF ~rootOK THEN drv' = refused
                ELSE
                LET set == SetExternalDriverDownloadDirectory(drv, resolvedDir, setOK)
                    files == InstallDirOf(drv, resolvedDir, engine)
                IN
                IF ~writeOK \/ files.marker = "dir"
                    THEN \E left \in WriteFileLeftovers(files.marker) :
                            drv' = [WithFiles(set, resolvedDir, engine,
                                              [files EXCEPT !.marker = left])
                                    EXCEPT !.last = Returned("install", << >>, FALSE)]
                    ELSE drv' = [WithFiles(set, resolvedDir, engine,
                                           [files EXCEPT !.marker = "file"])
                                    EXCEPT !.last = Returned("install", << >>, TRUE)]
    /\ UNCHANGED notDrv

\* what a failed os.RemoveAll leaves of the files it found: all of them, or some
RemoveAllLeftovers(files) ==
    {files, [files EXCEPT !.marker = "none"], [files EXCEPT !.exe = "none"]}

\* the call of RemoveDriverPackage, as the last operation: its type, the directory
\* resolved and the files found there
Removed(driverType, resolvedDir, had, ok) ==
    [Returned("remove", driverType, ok) EXCEPT !.dir = resolvedDir, !.had = had]

\* a variant of RemoveDriverPackage that deletes installed.json only
RemoveDriverPackageMarkerOnly ==
    /\ \E driverType \in OperationTypes, directory \in DownloadDirInputs :
        /\ LET engine == normalizeDriverType(driverType)
               resolvedDir == resolvedDirOf(drv, directory)
               files == InstallDirOf(drv, resolvedDir, engine)
           IN
           IF ~HasDefinition(driverType) \/ DefinitionBuiltIn(driverType)
            THEN drv' = [drv EXCEPT !.last = Removed(driverType, "", NoFiles, FALSE)]
            ELSE
            \E rootOK \in RootOutcomes(drv, resolvedDir),
               setOK \in RootOutcomes(drv, resolvedDir) :
                IF ~rootOK
                    THEN drv' = [drv EXCEPT !.last = Removed(driverType, "", NoFiles, FALSE)]
                ELSE
                LET set == SetExternalDriverDownloadDirectory(drv, resolvedDir, setOK) IN
                drv' = [WithFiles(set, resolvedDir, engine,
                                  [files EXCEPT !.marker = "none"])
                            EXCEPT !.last = Removed(driverType, resolvedDir, files, TRUE)]
    /\ UNCHANGED notDrv

\* App.RemoveDriverPackage(driverType, downloadDir); removeOK: os.RemoveAll succeeded
RemoveDriverPackage ==
    /\ \E driverType \in OperationTypes, directory \in DownloadDirInputs :
        /\ LET engine == normalizeDriverType(driverType)
               resolvedDir == resolvedDirOf(drv, directory)
               files == InstallDirOf(drv, resolvedDir, engine)
           IN
           IF ~HasDefinition(driverType) \/ DefinitionBuiltIn(driverType)
            THEN drv' = [drv EXCEPT !.last = Removed(driverType, "", NoFiles, FALSE)]
            ELSE
            \E rootOK \in RootOutcomes(drv, resolvedDir),
               setOK \in RootOutcomes(drv, resolvedDir), removeOK \in BOOLEAN :
                IF ~rootOK
                    THEN drv' = [drv EXCEPT !.last = Removed(driverType, "", NoFiles, FALSE)]
                ELSE
                LET set == SetExternalDriverDownloadDirectory(drv, resolvedDir, setOK) IN
                IF ~removeOK
                    THEN \E left \in RemoveAllLeftovers(files) :
                            drv' = [WithFiles(set, resolvedDir, engine, left)
                                EXCEPT !.last = Removed(driverType, resolvedDir, files, FALSE)]
                    ELSE drv' = [WithFiles(set, resolvedDir, engine, NoFiles)
                            EXCEPT !.last = Removed(driverType, resolvedDir, files, TRUE)]
    /\ UNCHANGED notDrv

\* the user or another program changes a path of an install directory
DiskChange ==
    /\ drv.changes < MaxDiskChanges
    /\ \E dir \in DriverDirs, kind \in PathKinds :
        \/ drv' = [drv EXCEPT !.disk[dir][TypePostgres].marker = kind,
                              !.changes = @ + 1,
                              !.last = Returned("disk", << >>, TRUE)]
        \/ drv' = [drv EXCEPT !.disk[dir][TypeMariaDB].marker = kind,
                              !.changes = @ + 1,
                              !.last = Returned("disk", << >>, TRUE)]
        \/ drv' = [drv EXCEPT !.disk[dir][TypeMariaDB].exe = kind,
                              !.changes = @ + 1,
                              !.last = Returned("disk", << >>, TRUE)]
    /\ UNCHANGED notDrv

\* a call of db.DriverRuntimeSupportStatus(driverType)
QueryRuntimeSupport ==
    /\ \E driverType \in DriverTypeInputs :
        \E rootOK1 \in RootOutcomes(drv, drv.dir), rootOK2 \in RootOutcomes(drv, drv.dir) :
            LET answer == DriverRuntimeSupportStatus(drv, driverType, rootOK1, rootOK2)
            IN drv' = [drv EXCEPT !.last =
                        [Returned("status", driverType, TRUE) EXCEPT
                            !.available = answer.available,
                            !.reason = answer.reason]]
    /\ UNCHANGED notDrv

\* the definitions whose items of the status list the model keeps
ListedDefinitions == {TypeMySQL, TypeRedis, TypeOracle, TypePostgres, TypeMariaDB}

\* App.GetDriverStatusList(downloadDir, manifestURL)
GetDriverStatusList ==
    /\ \E directory \in DownloadDirInputs :
        LET resolvedDir == resolvedDirOf(drv, directory) IN
        \E rootOK \in RootOutcomes(drv, resolvedDir), setOK \in RootOutcomes(drv, resolvedDir) :
            IF ~rootOK
                THEN drv' = [drv EXCEPT !.last = Returned("list", << >>, FALSE)]
                ELSE
                LET set == SetExternalDriverDownloadDirectory(drv, resolvedDir, setOK) IN
                \E rootOK1 \in RootOutcomes(set, set.dir),
                   rootOK2 \in RootOutcomes(set, set.dir),
                   metaReadable \in BOOLEAN :
                    drv' = [set EXCEPT !.last =
                        [Returned("list", << >>, TRUE) EXCEPT
                            !.items = [definition \in ListedDefinitions |->
                                driverStatusItem(set, resolvedDir, definition, rootOK1,
                                                 rootOK2, metaReadable)]]]
    /\ UNCHANGED notDrv

DrvNext ==
    \/ ConfigureDriverRuntimeDirectory
    \/ DownloadDriverPackage
    \/ InstallLocalDriverPackage
    \/ RemoveDriverPackage
    \/ DiskChange
    \/ QueryRuntimeSupport
    \/ GetDriverStatusList

----------------------------------------------------------------------------
(* The factory registry of package db, and the two NewDatabase functions *)

\* the factories registered after init(): nil, and two factories
RegisteredFactories ==
    {NilFactory, "CustomDB", newOptionalDriverAgentDatabase(TypeDiros)}

\* the names a factory is registered under
RegistrationTypes ==
    {TypeDoris, <<" ", "C", "u", "s", "t", "o", "m">>, <<"f", "o", "o">>, <<" ">>, << >>}

RegistrationLists == SeqsUpTo(RegistrationTypes, 2)

\* the types NewDatabase is called with
LookupTypes ==
    {<< >>, <<" ">>, <<" ", "\t">>, TypeMySQL, <<" ", "M", "y", "S", "Q", "L">>,
     TypePostgres, <<"s", "q", "l", "i", "t", "e">>, TypeDoris, TypeCustom,
     <<"f", "o", "o">>, <<"b", "a", "r">>}

NoResult == [ok |-> TRUE, kind |-> ""]

RegCall(op, factory, dbTypes, dbType, result, before) ==
    [op |-> op, factory |-> factory, dbTypes |-> dbTypes, dbType |-> dbType,
     result |-> result, before |-> before]

RegInit ==
    reg = [factories |-> registerOptionalDatabaseFactories,
           registrations |-> 0,
           last |-> RegCall("none", NilFactory, << >>, << >>, NoResult,
                            registerOptionalDatabaseFactories)]

RegDormant ==
    reg = [factories |-> BuiltinFactories,
           registrations |-> 0,
           last |-> RegCall("off", NilFactory, << >>, << >>, NoResult, BuiltinFactories)]

\* a call registerDatabaseFactory(factory, dbTypes...)
RegisterFactory ==
    /\ reg.registrations < MaxRegistrations
    /\ \E factory \in RegisteredFactories, dbTypes \in RegistrationLists :
        reg' = [factories |-> registerDatabaseFactory(reg.factories, factory, dbTypes),
                registrations |-> reg.registrations + 1,
                last |-> RegCall("register", factory, dbTypes, << >>, NoResult,
                                 reg.factories)]
    /\ UNCHANGED notReg

\* a call of package db's NewDatabase(dbType)
DbNewDatabaseCall ==
    /\ \E dbType \in LookupTypes :
        reg' = [reg EXCEPT !.last =
                    RegCall("db.NewDatabase", NilFactory, << >>, dbType,
                            dbNewDatabase(reg.factories, dbType), reg.factories)]
    /\ UNCHANGED notReg

\* a call of the connection layer's NewDatabase(dbType), which has no registry
NewDatabaseCall ==
    /\ \E dbType \in LookupTypes :
        reg' = [reg EXCEPT !.last =
                    RegCall("NewDatabase", NilFactory, << >>, dbType,
                            NewDatabase(dbType), reg.factories)]
    /\ UNCHANGED notReg

RegNext ==
    \/ RegisterFactory
    \/ DbNewDatabaseCall
    \/ NewDatabaseCall

----------------------------------------------------------------------------
(* Progress events: App.emitDriverDownloadProgress and scaleProgress *)

StatusStart == <<"s", "t", "a", "r", "t">>
StatusDownloading == <<"d", "o", "w", "n", "l", "o", "a", "d", "i", "n", "g">>
StatusDone == <<"d", "o", "n", "e">>
StatusError == <<"e", "r", "r", "o", "r">>

\* payload.Percent is a float64: the quotient num / den of two integers, den > 0
Percent(num, den) == [num |-> num, den |-> den]
PercentBelow(p, n) == p.num < n * p.den
PercentAbove(p, n) == p.num > n * p.den

\* a variant of progressPayload that keeps the quotient as computed
progressPayloadUnclamped(driverType, status, downloaded, total) ==
    LET type == normalizeDriverType(driverType)
        trimmed == TrimSpace(status)
        stat == IF trimmed = << >> THEN StatusDownloading ELSE trimmed
    IN  [DriverType |-> IF type = << >> THEN "unknown" ELSE Text(type),
         Status |-> stat,
         Percent |-> IF total > 0 THEN Percent(downloaded * 100, total)
                                  ELSE Percent(0, 1),
         Downloaded |-> downloaded,
         Total |-> total]

\* the payload emitDriverDownloadProgress builds
progressPayload(driverType, status, downloaded, total) ==
    LET type == normalizeDriverType(driverType)
        trimmed == TrimSpace(status)
        stat == IF trimmed = << >> THEN StatusDownloading ELSE trimmed
        quotient == Percent(downloaded * 100, total)
        clamped == IF total > 0
                      THEN IF PercentBelow(quotient, 0) THEN Percent(0, 1)
                           ELSE IF PercentAbove(quotient, 100) THEN Percent(100, 1)
                           ELSE quotient
                      ELSE Percent(0, 1)
    IN  [DriverType |-> IF type = << >> THEN "unknown" ELSE Text(type),
         Status |-> stat,
         Percent |-> IF stat = StatusDone /\ PercentBelow(clamped, 100)
                        THEN Percent(100, 1) ELSE clamped,
         Downloaded |-> downloaded,
         Total |-> total]

\* a.emitDriverDownloadProgress(driverType, status, downloaded, total, message): the
\* events emitted so far, and the new one unless a.ctx is nil
emitDriverDownloadProgress(ctx, events, driverType, status, downloaded, total) ==
    IF ~ctx THEN events
    ELSE Append(events, progressPayload(driverType, status, downloaded, total))

\* the byte counts a caller passes: negative, zero, below, at and above the total
ProgressValues == {-5, 0, 1, 50, 100, 150}

ProgressStatuses ==
    {StatusStart, StatusDownloading, StatusDone, StatusError, << >>,
     <<" ", "d", "o", "n", "e", "\t">>}

ProgressTypes == {TypeMariaDB, << >>}

ProgressInit ==
    /\ \E ctx \in BOOLEAN : progress = [ctx |-> ctx, calls |-> 0, events |-> << >>]

ProgressDormant == progress = [ctx |-> FALSE, calls |-> 0, events |-> << >>]

\* a call of a.emitDriverDownloadProgress
EmitDriverDownloadProgress ==
    /\ progress.calls < MaxEmits
    /\ \E driverType \in ProgressTypes, status \in ProgressStatuses,
          downloaded \in ProgressValues, total \in ProgressValues :
        progress' = [progress EXCEPT
            !.calls = @ + 1,
            !.events = emitDriverDownloadProgress(progress.ctx, progress.events,
                                                  driverType, status, downloaded, total)]
    /\ UNCHANGED notProgress

\* the progress callback of downloadOptionalDriverAgentBinary: a report of
\* downloadFileWithHash, scaled into 20..90
EmitScaledProgress ==
    /\ progress.calls < MaxEmits
    /\ \E driverType \in ProgressTypes,
          downloaded \in ProgressValues, total \in ProgressValues :
        progress' = [progress EXCEPT
            !.calls = @ + 1,
            !.events = emitDriverDownloadProgress(progress.ctx, progress.events,
                            driverType, StatusDownloading,
                            scaleProgress(downloaded, total, 20, 90), 100)]
    /\ UNCHANGED notProgress

ProgressNext ==
    \/ EmitDriverDownloadProgress
    \/ EmitScaledProgress

----------------------------------------------------------------------------
(* App.DownloadDriverPackage: one run, with the events it emits *)

\* installed.json of the engine: what is at its path, and what it holds
NoMarker == [kind |-> "none", content |-> ""]
OldMarker == [kind |-> "file", content |-> "old"]
DirMarker == [kind |-> "dir", content |-> ""]

\* writeInstalledDriverPackage: os.MkdirAll and os.WriteFile; os.WriteFile creates or
\* truncates the file and then writes, so that a failure leaves either what was
\* there or a file that is not the whole document
WriteOutcomes == {"ok", "failed", "truncated then failed"}

\* the types DownloadDriverPackage is called with
InstallTypes ==
    {<<"M", "a", "r", "i", "a", "D", "B", " ">>, TypeMySQL, <<"f", "o", "o">>}

IdleInstall ==
    [ctx |-> FALSE, pc |-> "idle", type |-> << >>, head |-> << >>, tail |-> << >>,
     marker |-> NoMarker, before |-> NoMarker, result |-> ""]

InstallInit ==
    /\ provEnv \in [target : PathKinds, candidates : CandidateLists,
                    rawURL : RawURLs, versionKnown : BOOLEAN,
                    policy : {"warn"}, expectedSHA : {NoDigest}]
    /\ fsTarget \in ExistingAt(provEnv.target)
    /\ prov = [IdleProv EXCEPT !.pc = "off"]
    /\ \E ctx \in BOOLEAN, marker \in {NoMarker, OldMarker, DirMarker} :
        install = [IdleInstall EXCEPT !.ctx = ctx, !.marker = marker, !.before = marker]

InstallDormant == install = [IdleInstall EXCEPT !.pc = "off"]

InstallReturn(i, result) == [i EXCEPT !.pc = "returned", !.result = result]

\* DownloadDriverPackage up to the call of ensureOptionalDriverAgentBinary: the
\* definition, the build and the directory are checked, the "start" event is
\* emitted and the path of the executable is resolved
DownloadBegin ==
    /\ install.pc = "idle"
    /\ \E driverType \in InstallTypes, buildIncluded \in BOOLEAN, rootOK \in BOOLEAN,
          pathOK \in BOOLEAN :
        LET type == normalizeDriverType(driverType) IN
        IF \/ ~HasDefinition(driverType)
           \/ DefinitionBuiltIn(driverType)
           \/ (IsOptionalGoDriver(type) /\ ~buildIncluded)
           \/ ~rootOK
          THEN /\ install' = InstallReturn([install EXCEPT !.type = type], "refused")
               /\ UNCHANGED prov
          ELSE
            LET started == [install EXCEPT
                    !.type = type,
                    !.head = emitDriverDownloadProgress(install.ctx, install.head, type,
                                                        StatusStart, 0, 100)]
            IN
            IF ~pathOK
              THEN /\ install' = InstallReturn(
                        [started EXCEPT !.tail =
                            emitDriverDownloadProgress(install.ctx, install.tail, type,
                                                       StatusError, 0, 0)], "error")
                   /\ UNCHANGED prov
              ELSE /\ install' = [started EXCEPT !.pc = "agent"]
                   /\ prov' = IdleProv
    /\ UNCHANGED <<provEnv, fsTarget>>
    /\ UNCHANGED notInstall

\* a variant of DownloadRecord that emits "done" before it writes installed.json
DownloadRecordDoneBeforeWrite ==
    /\ install.pc = "agent"
    /\ prov.pc = "done"
    /\ \E hashOK \in BOOLEAN, outcome \in WriteOutcomes :
        LET failed(i) ==
                InstallReturn(
                    [i EXCEPT !.tail =
                        emitDriverDownloadProgress(i.ctx, i.tail, i.type,
                                                   StatusError, 0, 0)], "error")
            writing == [install EXCEPT !.tail =
                            emitDriverDownloadProgress(install.ctx, install.tail,
                                        install.type, StatusDone, 100, 100)]
        IN
        IF prov.result # "ok" \/ (prov.hash = NoDigest /\ ~hashOK)
          THEN install' = failed(install)
        ELSE IF outcome # "ok" \/ install.marker.kind = "dir"
          THEN install' = failed(writing)
        ELSE install' = InstallReturn(
                [writing EXCEPT !.marker = [kind |-> "file", content |-> "complete"]],
                "ok")
    /\ UNCHANGED <<provEnv, fsTarget, prov>>
    /\ UNCHANGED notInstall

\* DownloadDriverPackage after ensureOptionalDriverAgentBinary returned: the rest of
\* installOptionalDriverAgentPackage, the event at 95, writeInstalledDriverPackage
\* and the last event
DownloadRecord ==
    /\ install.pc = "agent"
    /\ prov.pc = "done"
    /\ \E hashOK \in BOOLEAN, outcome \in WriteOutcomes :
        LET failed(i) ==
                InstallReturn(
                    [i EXCEPT !.tail =
                        emitDriverDownloadProgress(i.ctx, i.tail, i.type,
                                                   StatusError, 0, 0)], "error")
            writing == [install EXCEPT !.tail =
                            emitDriverDownloadProgress(install.ctx, install.tail, install.type,
                                                       StatusDownloading, 95, 100)]
        IN
        IF prov.result # "ok" \/ (prov.hash = NoDigest /\ ~hashOK)
          THEN install' = failed(install)
        ELSE IF outcome = "failed" \/ install.marker.kind = "dir"
          THEN install' = failed(writing)
        ELSE IF outcome = "truncated then failed"
          THEN install' = failed([writing EXCEPT
                                !.marker = [kind |-> "file", content |-> "partial"]])
        ELSE install' = InstallReturn(
                [writing EXCEPT
                    !.marker = [kind |-> "file", content |-> "complete"],
                    !.tail = emitDriverDownloadProgress(install.ctx, writing.tail,
                                        install.type, StatusDone, 100, 100)], "ok")
    /\ UNCHANGED <<provEnv, fsTarget, prov>>
    /\ UNCHANGED notInstall

\* a run of DownloadDriverPackage: ensureOptionalDriverAgentBinary runs in between
InstallNext ==
    \/ DownloadBegin
    \/ ProvStat
    \/ ProvMkdir
    \/ ProvCopy
    \/ ProvDownload
    \/ ProvBuild
    \/ DownloadRecord

----------------------------------------------------------------------------
(* The agent-backed binding: OptionalDriverAgentDB.Connect, Close and the rest *)

NoClient == 0

\* the methods of the Database contract other than Connect and Close
ContractMethods ==
    {"Ping", "Query", "Exec", "GetDatabases", "GetTables", "GetCreateStatement",
     "GetColumns", "GetAllColumns", "GetIndexes", "GetForeignKeys", "GetTriggers"}

\* the methods the callers of this model use: they differ only in their payload
CalledMethods == {"Ping", "Query"}

\* a worker process: running, exited and not waited for, or waited for
ProcessStates == {"running", "exited", "reaped"}

\* client.call on a worker: it answers success or failure, it exits before it
\* answers (the write or the read fails), or it never answers; on a worker that
\* has exited the write fails
CallOutcomes(state) ==
    IF state = "running" THEN {"ok", "failed", "io", "hang"} ELSE {"io"}

\* what the call leaves of the worker
AfterCall(state, outcome) == IF outcome = "io" THEN "exited" ELSE state

\* client.close(): stdin is closed, the process killed and waited for; Kill fails
\* on a process that has exited, which it may do once its stdin is closed
\* (exitedFirst)
clientClose(procs, i, exitedFirst) ==
    [procs |-> [procs EXCEPT ![i] = "reaped"],
     err |-> IF procs[i] = "exited" \/ exitedFirst THEN "kill" ELSE ""]

BindingOp(op, had, err) == [op |-> op, had |-> had, err |-> err]

BindingInit ==
    binding = [client |-> NoClient, procs |-> << >>, ops |-> 0, hung |-> FALSE,
               requests |-> 0, last |-> BindingOp("new", FALSE, "")]

BindingDormant ==
    binding = [client |-> NoClient, procs |-> << >>, ops |-> 0, hung |-> FALSE,
               requests |-> 0, last |-> BindingOp("off", FALSE, "")]

\* what every method does first and last in this model: count the call, record it
Done(b, op, err) ==
    [b EXCEPT !.ops = binding.ops + 1,
              !.last = BindingOp(op, binding.client # NoClient, err)]

\* a call that never returns: the method does not return either
Hung(b, op) == [Done(b, op, "") EXCEPT !.hung = TRUE]

\* a variant of BindingConnect that leaves the worker of a failed handshake alone
BindingConnectKeepsFailedWorker ==
    /\ ~binding.hung
    /\ binding.ops < MaxBindingOps
    /\ \E pathOK \in BOOLEAN, spawnOK \in BOOLEAN, exitedFirst \in BOOLEAN,
          outcome \in CallOutcomes("running") :
        LET closed == IF binding.client # NoClient
                        THEN clientClose(binding.procs, binding.client, exitedFirst).procs
                        ELSE binding.procs
            b0 == [binding EXCEPT !.client = NoClient, !.procs = closed]
            spawned == Append(closed, "running")
            new == Len(spawned)
            b1 == [b0 EXCEPT !.procs = [spawned EXCEPT ![new] = AfterCall("running", outcome)],
                             !.requests = binding.requests + 1]
        IN
        IF ~pathOK THEN binding' = Done(b0, "Connect", "path")
        ELSE IF ~spawnOK THEN binding' = Done(b0, "Connect", "spawn")
        ELSE IF outcome = "hang" THEN binding' = Hung(b1, "Connect")
        ELSE IF outcome # "ok" THEN binding' = Done(b1, "Connect", outcome)
        ELSE binding' = Done([b1 EXCEPT !.client = new], "Connect", "")
    /\ UNCHANGED notBinding

\* OptionalDriverAgentDB.Connect(config)
BindingConnect ==
    /\ ~binding.hung
    /\ binding.ops < MaxBindingOps
    /\ \E pathOK \in BOOLEAN, spawnOK \in BOOLEAN, exitedFirst \in BOOLEAN,
          exitedFirst2 \in BOOLEAN, outcome \in CallOutcomes("running") :
        LET closed == IF binding.client # NoClient
                        THEN clientClose(binding.procs, binding.client, exitedFirst).procs
                        ELSE binding.procs
            b0 == [binding EXCEPT !.client = NoClient, !.procs = closed]
            spawned == Append(closed, "running")
            new == Len(spawned)
            b1 == [b0 EXCEPT !.procs = [spawned EXCEPT ![new] = AfterCall("running", outcome)],
                             !.requests = binding.requests + 1]
        IN
        IF ~pathOK THEN binding' = Done(b0, "Connect", "path")
        ELSE IF ~spawnOK THEN binding' = Done(b0, "Connect", "spawn")
        ELSE IF outcome = "hang" THEN binding' = Hung(b1, "Connect")
        ELSE IF outcome # "ok"
            THEN binding' = Done([b1 EXCEPT !.procs =
                                    clientClose(b1.procs, new, exitedFirst2).procs],
                                 "Connect", outcome)
        ELSE binding' = Done([b1 EXCEPT !.client = new], "Connect", "")
    /\ UNCHANGED notBinding

\* a variant of BindingClose that sends the close request and closes the client
\* without asking whether there is one
BindingCloseUnguarded ==
    /\ ~binding.hung
    /\ binding.ops < MaxBindingOps
    /\ binding' = Done([binding EXCEPT !.client = NoClient,
                                       !.requests = binding.requests + 1],
                       "Close", "io")
    /\ UNCHANGED notBinding

\* OptionalDriverAgentDB.Close()
BindingClose ==
    /\ ~binding.hung
    /\ binding.ops < MaxBindingOps
    /\ IF binding.client = NoClient
         THEN binding' = Done(binding, "Close", "")
         ELSE
         \E outcome \in CallOutcomes(binding.procs[binding.client]),
            exitedFirst \in BOOLEAN :
            LET state == binding.procs[binding.client]
                b1 == [binding EXCEPT
                        !.procs[binding.client] = AfterCall(state, outcome),
                        !.requests = IF state = "running" THEN @ + 1 ELSE @]
                closed == clientClose(b1.procs, binding.client, exitedFirst)
            IN
            IF outcome = "hang" THEN binding' = Hung(b1, "Close")
            ELSE binding' = Done([b1 EXCEPT !.client = NoClient, !.procs = closed.procs],
                                 "Close", closed.err)
    /\ UNCHANGED notBinding

\* a method of the contract other than Connect and Close: requireClient, then
\* client.call
BindingMethod ==
    /\ ~binding.hung
    /\ binding.ops < MaxBindingOps
    /\ \E method \in CalledMethods :
        IF binding.client = NoClient
          THEN binding' = Done(binding, method, ErrNotOpen)
          ELSE
          \E outcome \in CallOutcomes(binding.procs[binding.client]) :
            LET state == binding.procs[binding.client]
                b1 == [binding EXCEPT
                        !.procs[binding.client] = AfterCall(state, outcome),
                        !.requests = IF state = "running" THEN @ + 1 ELSE @]
            IN
            IF outcome = "hang" THEN binding' = Hung(b1, method)
            ELSE binding' = Done(b1, method, IF outcome = "ok" THEN "" ELSE outcome)
    /\ UNCHANGED notBinding

\* the worker of the client ends on its own
BindingWorkerExit ==
    /\ ~binding.hung
    /\ binding.client # NoClient
    /\ binding.procs[binding.client] = "running"
    /\ binding' = [binding EXCEPT !.procs[binding.client] = "exited"]
    /\ UNCHANGED notBinding

BindingNext ==
    \/ BindingConnect
    \/ BindingClose
    \/ BindingMethod
    \/ BindingWorkerExit

----------------------------------------------------------------------------
(* The worker process: main of cmd/optional-driver-agent *)

\* the lines a worker finds on its stdin: blank, not valid JSON, longer than the
\* scanner's buffer, or a request
BlankLine == [kind |-> "blank", id |-> 0, method |-> ""]
GarbageLine == [kind |-> "garbage", id |-> 0, method |-> ""]
OverlongLine == [kind |-> "overlong", id |-> 0, method |-> ""]
RequestLine(id, method) == [kind |-> "request", id |-> id, method |-> method]

\* the methods of the requests written to the worker of this model
WorkerMethods == {"connect", "close", "ping", UnknownMethod}

LinesWith(id) ==
    {BlankLine, GarbageLine, OverlongLine} \cup {RequestLine(id, m) : m \in WorkerMethods}

\* the request of a line, as json.Unmarshal fills it
RequestOf(line) ==
    [id |-> line.id, method |-> line.method, hasConfig |-> line.method = "connect",
     hasChanges |-> FALSE]

\* what the engine does with the operations of one turn; the data it holds is left
\* out of this part
WorkerEngineOutcomes == {out \in EngineOutcomes : ~out.writes}

IdleWorker ==
    [pc |-> "scan", stdin |-> << >>, stdinClosed |-> FALSE, sent |-> 0,
     line |-> BlankLine, inst |-> NilInst, insts |-> << >>, stdoutOpen |-> TRUE,
     reads |-> << >>, out |-> << >>, failedWrite |-> FALSE, reason |-> ""]

\* main after its checks: the scanner and the writer are made, inst is nil
WorkerInit == wk = IdleWorker

WorkerDormant == wk = [IdleWorker EXCEPT !.pc = "off"]

WorkerRunning == wk.pc \in {"scan", "respond", "closing"}

\* the client writes a line to the worker's stdin
ClientWriteLine ==
    /\ WorkerRunning
    /\ ~wk.stdinClosed
    /\ wk.sent < MaxLines
    /\ \E line \in LinesWith(wk.sent + 1) :
        wk' = [wk EXCEPT !.stdin = Append(wk.stdin, line), !.sent = wk.sent + 1]
    /\ UNCHANGED notWorker

\* the client closes the worker's stdin
ClientCloseStdin ==
    /\ ~wk.stdinClosed
    /\ wk' = [wk EXCEPT !.stdinClosed = TRUE]
    /\ UNCHANGED notWorker

\* the reading end of the worker's stdout goes away
ClientCloseStdout ==
    /\ wk.stdoutOpen
    /\ wk' = [wk EXCEPT !.stdoutOpen = FALSE]
    /\ UNCHANGED notWorker

\* scanner.Scan() and the test of the line: a blank line is skipped, the end of the
\* input or a line too long for the buffer ends the loop
WorkerScan ==
    /\ wk.pc = "scan"
    /\ wk.stdin # << >> \/ wk.stdinClosed
    /\ IF wk.stdin = << >>
         THEN wk' = [wk EXCEPT !.pc = "closing", !.reason = "eof"]
         ELSE LET line == Head(wk.stdin) IN
              CASE line.kind = "blank" -> wk' = [wk EXCEPT !.stdin = Tail(wk.stdin)]
                [] line.kind = "overlong" ->
                      wk' = [wk EXCEPT !.stdin = Tail(wk.stdin), !.pc = "closing",
                                       !.reason = "scan error"]
                [] OTHER ->
                      wk' = [wk EXCEPT !.stdin = Tail(wk.stdin), !.pc = "respond",
                                       !.line = line,
                                       !.reads = Append(wk.reads, line.id)]
    /\ UNCHANGED notWorker

\* writeResponse(writer, resp): the response is written and flushed, or the marshal
\* or the write fails
writeResponse(w, resp, marshalOK) ==
    IF marshalOK /\ w.stdoutOpen
        THEN [w EXCEPT !.out = Append(w.out, resp.id)]
        ELSE [w EXCEPT !.failedWrite = TRUE]

\* a variant of WorkerRespond that answers nothing to a line that is not valid JSON
WorkerRespondSkipsGarbage ==
    /\ wk.pc = "respond"
    /\ \E out \in WorkerEngineOutcomes, marshalOK \in BOOLEAN :
        IF wk.line.kind = "garbage"
          THEN wk' = [wk EXCEPT !.pc = "scan"]
          ELSE
            LET r == handleRequest(RequestOf(wk.line), wk, 0, out)
                handled == [wk EXCEPT !.inst = r.inst, !.insts = r.insts]
                written == writeResponse(handled, r.resp, marshalOK)
            IN  wk' = IF written.failedWrite
                        THEN [written EXCEPT !.pc = "closing", !.reason = "write error"]
                        ELSE [written EXCEPT !.pc = "scan"]
    /\ UNCHANGED notWorker

\* the rest of one turn of the loop: json.Unmarshal, handleRequest, writeResponse.
\* A failed write of the answer to an unparsable line is ignored; a failed write of
\* the answer to a request ends the loop.
WorkerRespond ==
    /\ wk.pc = "respond"
    /\ \E out \in WorkerEngineOutcomes, marshalOK \in BOOLEAN :
        IF wk.line.kind = "garbage"
          THEN wk' = [writeResponse(wk, fail(newResponse(RequestOf(wk.line)),
                                             "cannot parse the request"), TRUE)
                        EXCEPT !.pc = "scan"]
          ELSE
            LET r == handleRequest(RequestOf(wk.line), wk, 0, out)
                handled == [wk EXCEPT !.inst = r.inst, !.insts = r.insts]
                written == writeResponse(handled, r.resp, marshalOK)
            IN  wk' = IF ~marshalOK \/ ~wk.stdoutOpen
                        THEN [written EXCEPT !.pc = "closing", !.reason = "write error"]
                        ELSE [written EXCEPT !.pc = "scan"]
    /\ UNCHANGED notWorker

\* a variant of WorkerShutdown that returns without closing inst
WorkerShutdownWithoutClose ==
    /\ wk.pc = "closing"
    /\ wk' = [wk EXCEPT !.pc = "exited"]
    /\ UNCHANGED notWorker

\* after the loop: inst.Close() if inst is not nil, and main returns
WorkerShutdown ==
    /\ wk.pc = "closing"
    /\ wk' = [wk EXCEPT !.pc = "exited",
                        !.insts = IF wk.inst # NilInst THEN closeInst(wk.insts, wk.inst)
                                                       ELSE wk.insts]
    /\ UNCHANGED notWorker

\* the process is killed (client.close) or dies
WorkerKilled ==
    /\ WorkerRunning
    /\ wk' = [wk EXCEPT !.pc = "killed"]
    /\ UNCHANGED notWorker

\* the steps of the worker itself
WorkerStep == WorkerScan \/ WorkerRespond \/ WorkerShutdown

WorkerNext ==
    \/ ClientWriteLine
    \/ ClientCloseStdin
    \/ ClientCloseStdout
    \/ WorkerScan
    \/ WorkerRespond
    \/ WorkerShutdown
    \/ WorkerKilled

----------------------------------------------------------------------------
(* The client's side of a worker's output: captureStderr and the reader of call *)

\* what a worker writes on a line
OutputTexts ==
    {<< >>, <<" ">>, <<"e">>, <<"{">>, <<" ", "e">>, <<"e", "{", "e">>}

\* the text captureStderr puts between two lines
StderrSeparator == <<" ", "|", " ">>

CaptureInit ==
    capture = [stderr |-> << >>, scanning |-> TRUE, reader |-> << >>, parsed |-> << >>,
               lines |-> 0]

CaptureDormant ==
    capture = [stderr |-> << >>, scanning |-> FALSE, reader |-> << >>, parsed |-> << >>,
               lines |-> 0]

\* one turn of the loop of captureStderr on a line: a line over the scanner's
\* maximum ends the loop, a blank line is skipped, any other is appended to
\* c.stderr after a separator
captureStderr(c, text) ==
    IF Len(text) > MaxLineLen THEN [c EXCEPT !.scanning = FALSE]
    ELSE IF TrimSpace(text) = << >> THEN c
    ELSE [c EXCEPT !.stderr = (IF c.stderr # << >> THEN c.stderr \o StderrSeparator
                                                   ELSE c.stderr) \o TrimSpace(text)]

\* the worker writes a line to its stderr and the goroutine started by
\* newOptionalDriverAgentClient takes it
WorkerWritesStderr ==
    /\ capture.scanning
    /\ capture.lines < MaxOutputLines
    /\ \E text \in OutputTexts :
        capture' = [captureStderr(capture, text) EXCEPT !.lines = capture.lines + 1]
    /\ UNCHANGED notCapture

\* the worker writes a line to its stdout: it waits in the pipe of c.reader
WorkerWritesStdout ==
    /\ capture.lines < MaxOutputLines
    /\ \E text \in OutputTexts :
        capture' = [capture EXCEPT !.reader = Append(capture.reader, text),
                                   !.lines = capture.lines + 1]
    /\ UNCHANGED notCapture

\* call reads one line from c.reader and parses it as the response
CallReadsResponse ==
    /\ capture.reader # << >>
    /\ capture' = [capture EXCEPT !.reader = Tail(capture.reader),
                                  !.parsed = Append(capture.parsed, Head(capture.reader))]
    /\ UNCHANGED notCapture

CaptureNext == WorkerWritesStderr \/ WorkerWritesStdout \/ CallReadsResponse

----------------------------------------------------------------------------
(* The manifest cache: resolveManifestDriverPackages *)

\* the time-to-live of an entry, in minutes
driverManifestCacheTTL == 5

defaultDriverManifestURLValue == "builtin://manifest"
RemoteManifestURL == "https://h/m"

\* what callers pass as manifestURL
RawManifestURLs == {"", "builtin://manifest", " https://h/m", "https://h/m", "ftp://h/m"}

\* resolveDriverRepositoryURL on the addresses of this model: a blank address and
\* the builtin one give the default, http(s) gives the parsed address, another
\* scheme is refused
resolveDriverRepositoryURL(repositoryURL) ==
    CASE repositoryURL = "" -> [url |-> defaultDriverManifestURLValue, err |-> ""]
      [] repositoryURL = "builtin://manifest" ->
            [url |-> defaultDriverManifestURLValue, err |-> ""]
      [] repositoryURL \in {" https://h/m", "https://h/m"} ->
            [url |-> RemoteManifestURL, err |-> ""]
      [] OTHER -> [url |-> "", err |-> "scheme"]

ResolvedURLs == {defaultDriverManifestURLValue, RemoteManifestURL}

\* the manifests behind the addresses: the builtin one is a constant of the program,
\* the remote one is A or B or cannot be read
ManifestBuiltin ==
    [Engine |-> EngineGo, DefaultEngine |-> << >>, DefaultEngine2 |-> << >>,
     Drivers |-> <<[key |-> <<"d", "u", "c", "k", "d", "b">>,
                    item |-> [EmptyItem EXCEPT !.Version = VersionEmbedded,
                                               !.ChecksumPolicy = PolicyOff,
                                               !.DownloadURL = <<"b">>]]>>]
ManifestA ==
    [Engine |-> << >>, DefaultEngine |-> << >>, DefaultEngine2 |-> <<"J", "D", "B", "C">>,
     Drivers |-> <<[key |-> <<"D", "u", "c", "k", "D", "B", " ">>,
                    item |-> [EmptyItem EXCEPT !.DownloadURL = <<" ", "u">>,
                                               !.ChecksumPolicy2 = <<"O", "F", "F", " ">>]]>>]
ManifestB ==
    [Engine |-> << >>, DefaultEngine |-> << >>, DefaultEngine2 |-> << >>,
     Drivers |-> <<[key |-> <<"d", "u", "c", "k", "d", "b">>,
                    item |-> [EmptyItem EXCEPT !.DownloadURL2 = <<"v">>,
                                               !.Version = <<"2", " ">>,
                                               !.SHA256 = <<"a">>]]>>]
RemoteStates == {"A", "B", "unreachable"}

\* loadManifestPackages(resolvedURL): the packages of the manifest now behind the
\* address, or the error of reading it
loadManifest(resolvedURL, remote) ==
    IF resolvedURL = defaultDriverManifestURLValue
        THEN [packages |-> loadManifestPackages(ManifestBuiltin), err |-> ""]
    ELSE IF remote = "A" THEN [packages |-> loadManifestPackages(ManifestA), err |-> ""]
    ELSE IF remote = "B" THEN [packages |-> loadManifestPackages(ManifestB), err |-> ""]
    ELSE [packages |-> EmptyMap, err |-> "unreachable"]

\* no entry under a key of driverManifestCache
NoEntry == [LoadedAt |-> -1, Packages |-> EmptyMap, Err |-> ""]

\* what a call returned: the packages at the return, or the error
Resolved(kind, url, packages, err) ==
    [kind |-> kind, url |-> url, packages |-> packages, err |-> err]

\* the map a caller holds: none, or a map that is the caller's own, or the very map
\* of the cache entry under a key (shared)
NoMap == [any |-> FALSE, packages |-> EmptyMap, shared |-> ""]
OwnMap(packages) == [any |-> TRUE, packages |-> packages, shared |-> ""]
SharedMap(url, packages) == [any |-> TRUE, packages |-> packages, shared |-> url]

IdleManifest ==
    [now |-> 0, remote |-> "unreachable",
     cache |-> [u \in ResolvedURLs |-> NoEntry],
     held |-> NoMap, resolves |-> 0, mutations |-> 0,
     loaded |-> [u \in ResolvedURLs |-> Resolved("none", u, EmptyMap, "")],
     last |-> Resolved("none", "", EmptyMap, "")]

ManifestInit == \E remote \in RemoteStates : mc = [IdleManifest EXCEPT !.remote = remote]

ManifestDormant == mc = [IdleManifest EXCEPT !.last.kind = "off"]

\* a minute passes
ManifestTick ==
    /\ mc.now < MaxClock
    /\ mc' = [mc EXCEPT !.now = mc.now + 1]
    /\ UNCHANGED notManifest

\* the manifest behind the remote address changes, or becomes unreadable
RemoteManifestChanges ==
    /\ \E remote \in RemoteStates \ {mc.remote} : mc' = [mc EXCEPT !.remote = remote]
    /\ UNCHANGED notManifest

\* a variant of manifestCacheHit that returns the cached map itself
manifestCacheHitShared(m, url) ==
    LET cached == m.cache[url] IN
    IF cached.Err # ""
        THEN [m EXCEPT !.held = NoMap, !.last = Resolved("hit", url, EmptyMap, cached.Err)]
        ELSE [m EXCEPT !.held = SharedMap(url, cached.Packages),
                       !.last = Resolved("hit", url, cached.Packages, "")]

\* the cache hit of resolveManifestDriverPackages: the cached error, or a copy of the
\* cached packages
manifestCacheHit(m, url) ==
    LET cached == m.cache[url] IN
    IF cached.Err # ""
        THEN [m EXCEPT !.held = NoMap, !.last = Resolved("hit", url, EmptyMap, cached.Err)]
        ELSE LET copy == copyPinnedPackageMap(cached.Packages) IN
             [m EXCEPT !.held = OwnMap(copy), !.last = Resolved("hit", url, copy, "")]

\* the rest of resolveManifestDriverPackages: the manifest is loaded, the entry is
\* replaced by the time, a copy of the packages and the error text, and the
\* packages or the error are returned
manifestCacheLoad(m, url) ==
    LET loadedNow == loadManifest(url, m.remote)
        entry == [LoadedAt |-> m.now,
                  Packages |-> copyPinnedPackageMap(loadedNow.packages),
                  Err |-> loadedNow.err]
        result == Resolved("load", url, loadedNow.packages, loadedNow.err)
    IN  [m EXCEPT !.cache[url] = entry,
                  !.held = IF loadedNow.err # "" THEN NoMap ELSE OwnMap(loadedNow.packages),
                  !.loaded[url] = result, !.last = result]

\* resolveManifestDriverPackages(manifestURL)
resolveManifestDriverPackages(m, manifestURL) ==
    LET resolved == resolveDriverRepositoryURL(manifestURL) IN
    IF resolved.err # ""
        THEN [m EXCEPT !.held = NoMap,
                       !.last = Resolved("refused", "", EmptyMap, resolved.err)]
        ELSE LET cached == m.cache[resolved.url] IN
             IF cached # NoEntry /\ m.now - cached.LoadedAt < driverManifestCacheTTL
                THEN manifestCacheHit(m, resolved.url)
                ELSE manifestCacheLoad(m, resolved.url)

ResolveManifest ==
    /\ mc.resolves < MaxResolves
    /\ \E manifestURL \in RawManifestURLs :
        mc' = [resolveManifestDriverPackages(mc, manifestURL)
                 EXCEPT !.resolves = mc.resolves + 1]
    /\ UNCHANGED notManifest

\* the caller changes the map the last call gave it: an entry is replaced, or all
\* are deleted; a map shared with the cache changes there too
CallerMutatesMap ==
    /\ mc.mutations < MaxMutations
    /\ mc.held.any
    /\ \E changed \in {EmptyMap,
                       MapPut(mc.held.packages, "duckdb",
                              [EmptyPackage EXCEPT !.Version = <<"x">>])} :
        /\ changed # mc.held.packages
        /\ mc' = [mc EXCEPT !.held.packages = changed,
                            !.cache = IF mc.held.shared = "" THEN @
                                      ELSE [@ EXCEPT ![mc.held.shared].Packages = changed],
                            !.mutations = mc.mutations + 1]
    /\ UNCHANGED notManifest

ManifestNext ==
    \/ ManifestTick
    \/ RemoteManifestChanges
    \/ ResolveManifest
    \/ CallerMutatesMap

----------------------------------------------------------------------------
(* A worker that does not answer: getDatabase, client.call and client.close *)

\* the goroutines that use the connection
Goroutines == {"g1", "g2", "g3"}

\* what a goroutine does: getDatabase for the fingerprint of the cached agent-backed
\* connection or for another one, a method of the connection it was handed, or
\* client.close
HangOps ==
    {[op |-> "getDatabase", key |-> "cached"], [op |-> "getDatabase", key |-> "other"],
     [op |-> "call", key |-> ""], [op |-> "close", key |-> ""]}

IdleGoroutine == [pc |-> "idle", op |-> "", key |-> ""]

IdleHang ==
    [amu |-> NoThread, cmu |-> NoThread, g |-> [t \in Goroutines |-> IdleGoroutine],
     worker |-> "running", pending |-> FALSE, resp |-> "", cached |-> TRUE]

\* the connection is in dbCache, its worker runs, nobody is inside
HangInit == hang = IdleHang

HangDormant == hang = [IdleHang EXCEPT !.worker = "off", !.cached = FALSE]

\* the return of a goroutine: the deferred Unlock of each mutex it holds
Returned29(h, t) ==
    [h EXCEPT !.g[t] = IdleGoroutine,
              !.amu = IF h.amu = t THEN NoThread ELSE h.amu,
              !.cmu = IF h.cmu = t THEN NoThread ELSE h.cmu]

\* a goroutine enters getDatabase, a method of the connection, or client.close
StartOp(t) ==
    /\ hang.g[t].pc = "idle"
    /\ \E o \in HangOps :
        hang' = [hang EXCEPT !.g[t] =
                    [pc |-> IF o.op = "getDatabase" THEN "a_lock" ELSE "c_lock",
                     op |-> o.op, key |-> o.key]]
    /\ UNCHANGED notHang

\* a.mu.Lock() of getDatabase and the lookup: for the cached connection db.Ping()
\* follows; for another fingerprint a connection is made and the call returns
LockCache(t) ==
    /\ hang.g[t].pc = "a_lock"
    /\ hang.amu = NoThread
    /\ IF hang.g[t].key = "cached" /\ hang.cached
         THEN hang' = [hang EXCEPT !.amu = t, !.g[t].pc = "c_lock"]
         ELSE hang' = Returned29([hang EXCEPT !.amu = t], t)
    /\ UNCHANGED notHang

\* c.mu.Lock() of call and of close
LockClient(t) ==
    /\ hang.g[t].pc = "c_lock"
    /\ hang.cmu = NoThread
    /\ hang' = [hang EXCEPT !.cmu = t,
                            !.g[t].pc = IF hang.g[t].op = "close" THEN "kill" ELSE "c_write"]
    /\ UNCHANGED notHang

\* what follows a call that returned to getDatabase with an error: the entry is
\* evicted and a new connection made, with a.mu held
AfterCall29(h, t, ok) ==
    IF h.g[t].op = "getDatabase" /\ ~ok
        THEN Returned29([h EXCEPT !.cached = FALSE, !.worker = "exited"], t)
        ELSE Returned29(h, t)

\* c.stdin.Write(payload): it fails on a worker that has exited
WriteRequest(t) ==
    /\ hang.g[t].pc = "c_write"
    /\ IF hang.worker = "exited"
         THEN hang' = AfterCall29(hang, t, FALSE)
         ELSE hang' = [hang EXCEPT !.pending = TRUE, !.g[t].pc = "c_read"]
    /\ UNCHANGED notHang

\* a variant of ReadResponse that gives up on a worker that does not answer
ReadResponseWithDeadline(t) ==
    /\ hang.g[t].pc = "c_read"
    /\ IF hang.resp # ""
         THEN hang' = AfterCall29([hang EXCEPT !.resp = ""], t, hang.resp = "ok")
         ELSE hang' = AfterCall29(hang, t, FALSE)
    /\ UNCHANGED notHang

\* c.reader.ReadBytes('\n'): it returns with a line the worker wrote, or with the
\* end of the stream when the worker has exited; there is no other way out
ReadResponse(t) ==
    /\ hang.g[t].pc = "c_read"
    /\ hang.resp # "" \/ hang.worker = "exited"
    /\ IF hang.resp # ""
         THEN hang' = AfterCall29([hang EXCEPT !.resp = ""], t, hang.resp = "ok")
         ELSE hang' = AfterCall29(hang, t, FALSE)
    /\ UNCHANGED notHang

\* the rest of client.close: stdin closed, the process killed and waited for
KillWorker(t) ==
    /\ hang.g[t].pc = "kill"
    /\ hang' = Returned29([hang EXCEPT !.worker = "exited", !.pending = FALSE], t)
    /\ UNCHANGED notHang

\* the worker handles the request and writes its response
WorkerAnswers ==
    /\ hang.worker = "running"
    /\ hang.pending
    /\ \E resp \in {"ok", "failed"} :
        hang' = [hang EXCEPT !.pending = FALSE, !.resp = resp]
    /\ UNCHANGED notHang

\* the worker takes the request and never writes a response to it
WorkerNeverAnswers ==
    /\ hang.worker = "running"
    /\ hang.pending
    /\ hang' = [hang EXCEPT !.pending = FALSE, !.worker = "stuck"]
    /\ UNCHANGED notHang

\* the worker process ends by itself or is killed from outside the program
WorkerDies ==
    /\ hang.worker \in {"running", "stuck"}
    /\ hang' = [hang EXCEPT !.worker = "exited", !.pending = FALSE]
    /\ UNCHANGED notHang

HangNext ==
    \/ \E t \in Goroutines : StartOp(t)
    \/ \E t \in Goroutines : LockCache(t)
    \/ \E t \in Goroutines : LockClient(t)
    \/ \E t \in Goroutines : WriteRequest(t)
    \/ \E t \in Goroutines : ReadResponse(t)
    \/ \E t \in Goroutines : KillWorker(t)
    \/ WorkerAnswers
    \/ WorkerNeverAnswers
    \/ WorkerDies

----------------------------------------------------------------------------
(* DuckDB.ApplyChanges: one change set in one transaction *)

\* a delete is its key map, an insert its row: empty or not; an update has a map
\* of values and a map of keys
DuckUpdates == [values : BOOLEAN, keys : BOOLEAN]

ChangeSets ==
    [Deletes : SeqsUpTo(BOOLEAN, MaxStatements),
     Updates : SeqsUpTo(DuckUpdates, MaxStatements),
     Inserts : SeqsUpTo(BOOLEAN, MaxStatements)]

\* the statements of a change set in the order ApplyChanges goes through them
Statements(changes) ==
    [i \in 1..Len(changes.Deletes) |->
        [kind |-> "delete", n |-> i, columns |-> changes.Deletes[i], keys |-> changes.Deletes[i]]]
    \o [i \in 1..Len(changes.Updates) |->
        [kind |-> "update", n |-> i, columns |-> changes.Updates[i].values,
         keys |-> changes.Updates[i].keys]]
    \o [i \in 1..Len(changes.Inserts) |->
        [kind |-> "insert", n |-> i, columns |-> changes.Inserts[i], keys |-> TRUE]]

\* the write a statement makes when it is executed
WriteOf(st) == <<st.kind, st.n>>

\* table: the writes of the change set that other readers of the database see;
\* pending: the writes made inside the open transaction; executed: history, the
\* statements executed so far
IdleDuck ==
    [pc |-> "begin", conn |-> TRUE, changes |-> [Deletes |-> << >>, Updates |-> << >>, Inserts |-> << >>],
     k |-> 1, tx |-> "none", pending |-> {}, table |-> {}, executed |-> 0, result |-> ""]

DuckInit ==
    \E conn \in BOOLEAN, changes \in ChangeSets :
        duck = [IdleDuck EXCEPT !.conn = conn, !.changes = changes]

DuckDormant == duck = [IdleDuck EXCEPT !.pc = "off"]

\* a return after Begin: the deferred tx.Rollback() discards the writes of a
\* transaction that is still open, and does nothing after Commit
DuckReturn(d, result) ==
    [d EXCEPT !.pc = "returned", !.result = result,
              !.tx = IF d.tx = "open" THEN "rolled back" ELSE d.tx,
              !.pending = IF d.tx = "open" THEN {} ELSE d.pending]

\* the check of d.conn and d.conn.Begin()
DuckBegin ==
    /\ duck.pc = "begin"
    /\ \E beginOK \in BOOLEAN :
          duck' = IF ~duck.conn THEN [duck EXCEPT !.pc = "returned", !.result = "connection not open"]
                  ELSE IF ~beginOK THEN [duck EXCEPT !.pc = "returned", !.result = "begin error"]
                  ELSE [duck EXCEPT !.pc = "statements", !.tx = "open"]
    /\ UNCHANGED notDuck

\* a variant of ApplyStatement that executes on the connection, outside the
\* transaction: the write is visible at once
ApplyStatementOnConn ==
    /\ duck.pc = "statements"
    /\ duck.k <= Len(Statements(duck.changes))
    /\ \E execOK \in BOOLEAN :
          LET st == Statements(duck.changes)[duck.k] IN
          duck' = IF ~st.columns THEN [duck EXCEPT !.k = duck.k + 1]
                  ELSE IF ~st.keys THEN DuckReturn(duck, "update requires keys")
                  ELSE IF ~execOK THEN DuckReturn(duck, st.kind \o " error")
                  ELSE [duck EXCEPT !.k = duck.k + 1,
                                    !.table = duck.table \cup {WriteOf(st)},
                                    !.executed = duck.executed + 1]
    /\ UNCHANGED notDuck

\* one turn of one of the three loops: a statement with no column is skipped, an
\* update with values and no keys is an error, the others go to tx.Exec
ApplyStatement ==
    /\ duck.pc = "statements"
    /\ duck.k <= Len(Statements(duck.changes))
    /\ \E execOK \in BOOLEAN :
          LET st == Statements(duck.changes)[duck.k] IN
          duck' = IF ~st.columns THEN [duck EXCEPT !.k = duck.k + 1]
                  ELSE IF ~st.keys THEN DuckReturn(duck, "update requires keys")
                  ELSE IF ~execOK THEN DuckReturn(duck, st.kind \o " error")
                  ELSE [duck EXCEPT !.k = duck.k + 1,
                                    !.pending = duck.pending \cup {WriteOf(st)},
                                    !.executed = duck.executed + 1]
    /\ UNCHANGED notDuck

\* return tx.Commit(): the writes of the transaction become visible together, or,
\* when the commit fails, the engine discards them
DuckCommit ==
    /\ duck.pc = "statements"
    /\ duck.k > Len(Statements(duck.changes))
    /\ \E commitOK \in BOOLEAN :
          duck' = IF commitOK
                     THEN DuckReturn([duck EXCEPT !.tx = "committed",
                                                  !.table = duck.table \cup duck.pending,
                                                  !.pending = {}], "ok")
                     ELSE DuckReturn([duck EXCEPT !.tx = "failed", !.pending = {}],
                                     "commit error")
    /\ UNCHANGED notDuck

DuckNext ==
    \/ DuckBegin
    \/ ApplyStatement
    \/ DuckCommit

----------------------------------------------------------------------------
(* The cached object in use: DBQuery beside getDatabase, DBConnect and shutdown *)

\* what a goroutine runs: DBQuery (getDatabase, then an operation on the object it
\* returned), DBConnect, or shutdown
UseOps == {"DBQuery", "DBConnect", "shutdown"}

IdleUser == [pc |-> "idle", op |-> "", db |-> NoObj, after |-> ""]

\* amu: the holder of a.mu; cache: the entry of the one fingerprint; objs: the
\* agent-backed objects made so far, each with its worker alive or not (open), its
\* d.client set or nil (client) and the holder of its client's c.mu (cmu)
UseInit ==
    use = [amu |-> NoThread, cache |-> NoObj, objs |-> << >>,
           g |-> [t \in Goroutines |-> IdleUser]]

UseDormant ==
    use = [amu |-> NoThread, cache |-> NoObj, objs |-> << >>,
           g |-> [t \in Goroutines |-> [IdleUser EXCEPT !.pc = "off"]]]

\* a goroutine enters DBQuery, DBConnect or shutdown; each starts at a.mu.Lock()
UseStart(t, op) ==
    /\ use.g[t].pc = "idle"
    /\ use' = [use EXCEPT !.g[t].pc = "a_lock", !.g[t].op = op]
    /\ UNCHANGED notUse

\* a.mu.Lock() of getDatabase, of DBConnect and of shutdown
UseLockCache(t) ==
    /\ use.g[t].pc = "a_lock"
    /\ use.amu = NoThread
    /\ use' = [use EXCEPT !.amu = t,
                          !.g[t].pc = CASE use.g[t].op = "DBQuery" -> "gd_lookup"
                                        [] use.g[t].op = "DBConnect" -> "dc_evict"
                                        [] OTHER -> "sd_close"]
    /\ UNCHANGED notUse

\* getDatabase: the lookup and db.Ping() of the cached object, which is a call on
\* its client and so waits for c.mu; on success the object is returned and a.mu is
\* released by the deferred Unlock, on failure the object is to be closed
UseLookup(t) ==
    /\ use.g[t].pc = "gd_lookup"
    /\ IF use.cache = NoObj
          THEN use' = [use EXCEPT !.g[t].pc = "gd_new"]
          ELSE LET o == use.cache IN
               /\ use.objs[o].client => use.objs[o].cmu = NoThread
               /\ \E pingOK \in BOOLEAN :
                     use' = IF use.objs[o].client /\ use.objs[o].open /\ pingOK
                               THEN [use EXCEPT !.amu = NoThread, !.g[t].pc = "require",
                                                !.g[t].db = o]
                               ELSE [use EXCEPT !.g[t].pc = "close_call", !.g[t].db = o,
                                                !.g[t].after = "gd_new"]
    /\ UNCHANGED notUse

\* getDatabase: NewDatabase, Connect, the insertion and the return
UseConnectNew(t) ==
    /\ use.g[t].pc = "gd_new"
    /\ \E connOK \in BOOLEAN :
          use' = IF connOK
                    THEN [use EXCEPT !.amu = NoThread,
                                     !.objs = Append(use.objs, [open |-> TRUE, client |-> TRUE,
                                                                cmu |-> NoThread]),
                                     !.cache = Len(use.objs) + 1,
                                     !.g[t].pc = "require", !.g[t].db = Len(use.objs) + 1]
                    ELSE [use EXCEPT !.amu = NoThread, !.g[t].pc = "done", !.g[t].db = NoObj]
    /\ UNCHANGED notUse

\* DBConnect: the old entry is closed and deleted; the call of getDatabase that
\* follows waits for a.mu, which the goroutine holds
UseEvictDBConnect(t) ==
    /\ use.g[t].pc = "dc_evict"
    /\ use' = IF use.cache = NoObj
                 THEN [use EXCEPT !.g[t].pc = "stuck"]
                 ELSE [use EXCEPT !.g[t].pc = "close_call", !.g[t].db = use.cache,
                                  !.g[t].after = "stuck"]
    /\ UNCHANGED notUse

\* shutdown: every cached object is closed, the entries stay
UseShutdown(t) ==
    /\ use.g[t].pc = "sd_close"
    /\ use' = IF use.cache = NoObj
                 THEN [use EXCEPT !.amu = NoThread, !.g[t].pc = "done"]
                 ELSE [use EXCEPT !.g[t].pc = "close_call", !.g[t].db = use.cache,
                                  !.g[t].after = "sd_done"]
    /\ UNCHANGED notUse

\* OptionalDriverAgentDB.Close up to d.client.close(): nothing when d.client is nil;
\* else the close request and the kill of the worker, each under c.mu
UseCloseCall(t) ==
    /\ use.g[t].pc = "close_call"
    /\ LET o == use.g[t].db IN
          IF ~use.objs[o].client
             THEN use' = [use EXCEPT !.g[t].pc = "close_clear"]
             ELSE /\ use.objs[o].cmu = NoThread
                  /\ use' = [use EXCEPT !.objs[o].open = FALSE, !.g[t].pc = "close_clear"]
    /\ UNCHANGED notUse

\* d.client = nil at the end of Close, with no lock held on d; then what follows the
\* Close: delete(a.dbCache, key) in getDatabase and DBConnect, the return of shutdown
UseCloseClear(t) ==
    /\ use.g[t].pc = "close_clear"
    /\ LET o == use.g[t].db
           after == use.g[t].after
       IN  use' = [use EXCEPT !.objs[o].client = FALSE,
                              !.cache = IF after = "sd_done" THEN use.cache ELSE NoObj,
                              !.amu = IF after = "sd_done" THEN NoThread ELSE use.amu,
                              !.g[t].pc = IF after = "sd_done" THEN "done" ELSE after]
    /\ UNCHANGED notUse

\* the operation of DBQuery on the object getDatabase returned: requireClient reads
\* d.client, with no lock held
OpRequire(t) ==
    /\ use.g[t].pc = "require"
    /\ use' = [use EXCEPT !.g[t].pc = IF use.objs[use.g[t].db].client THEN "c_lock" ELSE "done"]
    /\ UNCHANGED notUse

\* client.call: c.mu.Lock()
OpLock(t) ==
    /\ use.g[t].pc = "c_lock"
    /\ use.objs[use.g[t].db].cmu = NoThread
    /\ use' = [use EXCEPT !.objs[use.g[t].db].cmu = t, !.g[t].pc = "c_io"]
    /\ UNCHANGED notUse

\* client.call: the request is written, the response read, c.mu released
OpFinish(t) ==
    /\ use.g[t].pc = "c_io"
    /\ use' = [use EXCEPT !.objs[use.g[t].db].cmu = NoThread, !.g[t].pc = "done"]
    /\ UNCHANGED notUse

UseNext ==
    \/ \E t \in Goroutines, op \in UseOps : UseStart(t, op)
    \/ \E t \in Goroutines : UseLockCache(t)
    \/ \E t \in Goroutines : UseLookup(t)
    \/ \E t \in Goroutines : UseConnectNew(t)
    \/ \E t \in Goroutines : UseEvictDBConnect(t)
    \/ \E t \in Goroutines : UseShutdown(t)
    \/ \E t \in Goroutines : UseCloseCall(t)
    \/ \E t \in Goroutines : UseCloseClear(t)
    \/ \E t \in Goroutines : OpRequire(t)
    \/ \E t \in Goroutines : OpLock(t)
    \/ \E t \in Goroutines : OpFinish(t)

----------------------------------------------------------------------------
(* Concurrent install runs: ensureOptionalDriverAgentBinary and copyAgentBinary *)

\* two install runs for one engine and one driver directory: the same executable
\* path, the same temporary path (executablePath + ".tmp") and the same local
\* candidate to copy
NoInode == 0

\* a file is the chunks written to it so far; it is complete with all of them
EmptyFile == [k \in 1..MaxChunks |-> FALSE]
Complete(file) == \A k \in 1..MaxChunks : file[k]

IdleRun == [pc |-> "stat", fd |-> NoInode, off |-> 1, hash |-> EmptyFile,
            atReport |-> EmptyFile, result |-> ""]

\* tmp, exe: the file the temporary path and the executable path name; inodes: the
\* files created so far (an unlinked file lives on while a run has it open)
RaceInit ==
    race = [tmp |-> NoInode, exe |-> NoInode, inodes |-> << >>,
            run |-> [r \in Threads |-> IdleRun]]

RaceDormant ==
    race = [tmp |-> NoInode, exe |-> NoInode, inodes |-> << >>,
            run |-> [r \in Threads |-> [IdleRun EXCEPT !.pc = "off"]]]

\* an error return of copyAgentBinary after the creation: os.Remove(tempPath), and
\* ensureOptionalDriverAgentBinary returns the error
RunFails(c, r) == [c EXCEPT !.tmp = NoInode, !.run[r].pc = "done", !.run[r].result = "error"]

\* os.Stat(executablePath) and, for a regular file, hashFileSHA256: the file is
\* reused as it is
RunStat(r) ==
    /\ race.run[r].pc = "stat"
    /\ race' = IF race.exe # NoInode
                  THEN [race EXCEPT !.run[r].pc = "hashed",
                                    !.run[r].hash = race.inodes[race.exe]]
                  ELSE [race EXCEPT !.run[r].pc = "remove"]
    /\ UNCHANGED notRace

\* copyAgentBinary: _ = os.Remove(tempPath)
RunRemoveTemp(r) ==
    /\ race.run[r].pc = "remove"
    /\ race' = [race EXCEPT !.tmp = NoInode, !.run[r].pc = "create"]
    /\ UNCHANGED notRace

\* os.Create(tempPath): a new file, or the file now at the path, truncated
RunCreate(r) ==
    /\ race.run[r].pc = "create"
    /\ race' = IF race.tmp = NoInode
                  THEN [race EXCEPT !.inodes = Append(race.inodes, EmptyFile),
                                    !.tmp = Len(race.inodes) + 1,
                                    !.run[r].fd = Len(race.inodes) + 1,
                                    !.run[r].pc = "write"]
                  ELSE [race EXCEPT !.inodes[race.tmp] = EmptyFile,
                                    !.run[r].fd = race.tmp,
                                    !.run[r].pc = "write"]
    /\ UNCHANGED notRace

\* io.Copy(dst, src), one chunk at the run's own offset of its open file; then
\* Sync and Close
RunWrite(r) ==
    /\ race.run[r].pc = "write"
    /\ \E ok \in BOOLEAN :
          race' = IF ~ok THEN RunFails(race, r)
                  ELSE [race EXCEPT !.inodes[race.run[r].fd][race.run[r].off] = TRUE,
                                    !.run[r].off = race.run[r].off + 1,
                                    !.run[r].pc = IF race.run[r].off = MaxChunks
                                                     THEN "rename" ELSE "write"]
    /\ UNCHANGED notRace

\* os.Chmod(tempPath) and os.Rename(tempPath, targetPath), on whatever file the
\* temporary path names by now; both fail when it names none
RunRename(r) ==
    /\ race.run[r].pc = "rename"
    /\ race' = IF race.tmp = NoInode THEN RunFails(race, r)
               ELSE [race EXCEPT !.exe = race.tmp, !.tmp = NoInode, !.run[r].pc = "hash"]
    /\ UNCHANGED notRace

\* hashFileSHA256(executablePath) after the copy
RunHash(r) ==
    /\ race.run[r].pc = "hash"
    /\ race' = [race EXCEPT !.run[r].pc = "hashed", !.run[r].hash = race.inodes[race.exe]]
    /\ UNCHANGED notRace

\* the run returns the digest; installed.json is written with it and the install
\* reports success
RunReport(r) ==
    /\ race.run[r].pc = "hashed"
    /\ race' = [race EXCEPT !.run[r].pc = "done", !.run[r].result = "ok",
                            !.run[r].atReport = race.inodes[race.exe]]
    /\ UNCHANGED notRace

RaceNext ==
    \/ \E r \in Threads : RunStat(r)
    \/ \E r \in Threads : RunRemoveTemp(r)
    \/ \E r \in Threads : RunCreate(r)
    \/ \E r \in Threads : RunWrite(r)
    \/ \E r \in Threads : RunRename(r)
    \/ \E r \in Threads : RunHash(r)
    \/ \E r \in Threads : RunReport(r)

----------------------------------------------------------------------------
(* Specifications *)

Init == CacheInit /\ AgentDormant /\ ProvDormant /\ PkgDormant /\ DrvDormant /\ DirosDormant /\ RegDormant /\ ProgressDormant /\ InstallDormant /\ BindingDormant /\ WorkerDormant /\ CaptureDormant /\ ManifestDormant /\ HangDormant /\ DuckDormant /\ UseDormant /\ RaceDormant

Next == CacheNext

Spec == Init /\ [][Next]_vars

InitAgent == AgentInit /\ CacheInit /\ ProvDormant /\ PkgDormant /\ DrvDormant /\ DirosDormant /\ RegDormant /\ ProgressDormant /\ InstallDormant /\ BindingDormant /\ WorkerDormant /\ CaptureDormant /\ ManifestDormant /\ HangDormant /\ DuckDormant /\ UseDormant /\ RaceDormant

SpecAgent == InitAgent /\ [][AgentNext]_vars

InitProv == ProvInit /\ CacheInit /\ AgentDormant /\ PkgDormant /\ DrvDormant /\ DirosDormant /\ RegDormant /\ ProgressDormant /\ InstallDormant /\ BindingDormant /\ WorkerDormant /\ CaptureDormant /\ ManifestDormant /\ HangDormant /\ DuckDormant /\ UseDormant /\ RaceDormant

SpecProv == InitProv /\ [][ProvNext]_vars

InitPkg == PkgInit /\ CacheInit /\ AgentDormant /\ ProvDormant /\ DrvDormant /\ DirosDormant /\ RegDormant /\ ProgressDormant /\ InstallDormant /\ BindingDormant /\ WorkerDormant /\ CaptureDormant /\ ManifestDormant /\ HangDormant /\ DuckDormant /\ UseDormant /\ RaceDormant

SpecPkg == InitPkg /\ [][PkgNext]_vars

InitStatus == DrvInit /\ CacheInit /\ AgentDormant /\ ProvDormant /\ PkgDormant /\ DirosDormant /\ RegDormant /\ ProgressDormant /\ InstallDormant /\ BindingDormant /\ WorkerDormant /\ CaptureDormant /\ ManifestDormant /\ HangDormant /\ DuckDormant /\ UseDormant /\ RaceDormant
SpecStatus == InitStatus /\ [][DrvNext]_vars

InitDiros ==
    DirosInit /\ CacheInit /\ AgentDormant /\ ProvDormant /\ PkgDormant /\ DrvDormant
        /\ RegDormant /\ ProgressDormant /\ InstallDormant /\ BindingDormant /\ WorkerDormant /\ CaptureDormant /\ ManifestDormant /\ HangDormant /\ DuckDormant /\ UseDormant /\ RaceDormant
SpecDiros == InitDiros /\ [][DirosNext]_vars

InitRegistry ==
    RegInit /\ CacheInit /\ AgentDormant /\ ProvDormant /\ PkgDormant /\ DrvDormant
        /\ DirosDormant /\ ProgressDormant /\ InstallDormant /\ BindingDormant /\ WorkerDormant /\ CaptureDormant /\ ManifestDormant /\ HangDormant /\ DuckDormant /\ UseDormant /\ RaceDormant
SpecRegistry == InitRegistry /\ [][RegNext]_vars

InitProgress ==
    ProgressInit /\ CacheInit /\ AgentDormant /\ ProvDormant /\ PkgDormant /\ DrvDormant
        /\ DirosDormant /\ RegDormant /\ InstallDormant /\ BindingDormant /\ WorkerDormant /\ CaptureDormant /\ ManifestDormant /\ HangDormant /\ DuckDormant /\ UseDormant /\ RaceDormant
SpecProgress == InitProgress /\ [][ProgressNext]_vars

InitInstall ==
    InstallInit /\ CacheInit /\ AgentDormant /\ PkgDormant /\ DrvDormant
        /\ DirosDormant /\ RegDormant /\ ProgressDormant /\ BindingDormant /\ WorkerDormant /\ CaptureDormant /\ ManifestDormant /\ HangDormant /\ DuckDormant /\ UseDormant /\ RaceDormant
SpecInstall == InitInstall /\ [][InstallNext]_vars

InitBinding ==
    BindingInit /\ CacheInit /\ AgentDormant /\ ProvDormant /\ PkgDormant /\ DrvDormant
        /\ DirosDormant /\ RegDormant /\ ProgressDormant /\ InstallDormant
        /\ WorkerDormant /\ CaptureDormant /\ ManifestDormant /\ HangDormant /\ DuckDormant /\ UseDormant /\ RaceDormant
SpecBinding == InitBinding /\ [][BindingNext]_vars

\* the worker process runs on: a step of its own that stays possible is taken
InitWorker ==
    WorkerInit /\ CacheInit /\ AgentDormant /\ ProvDormant /\ PkgDormant /\ DrvDormant
        /\ DirosDormant /\ RegDormant /\ ProgressDormant /\ InstallDormant
        /\ BindingDormant /\ CaptureDormant /\ ManifestDormant /\ HangDormant /\ DuckDormant /\ UseDormant /\ RaceDormant
SpecWorker == InitWorker /\ [][WorkerNext]_vars /\ WF_vars(WorkerStep)

InitCapture ==
    CaptureInit /\ CacheInit /\ AgentDormant /\ ProvDormant /\ PkgDormant /\ DrvDormant
        /\ DirosDormant /\ RegDormant /\ ProgressDormant /\ InstallDormant
        /\ BindingDormant /\ WorkerDormant /\ ManifestDormant /\ HangDormant /\ DuckDormant /\ UseDormant /\ RaceDormant
SpecCapture == InitCapture /\ [][CaptureNext]_vars

InitManifest ==
    ManifestInit /\ CacheInit /\ AgentDormant /\ ProvDormant /\ PkgDormant /\ DrvDormant
        /\ DirosDormant /\ RegDormant /\ ProgressDormant /\ InstallDormant
        /\ BindingDormant /\ WorkerDormant /\ CaptureDormant /\ HangDormant /\ DuckDormant /\ UseDormant /\ RaceDormant
SpecManifest == InitManifest /\ [][ManifestNext]_vars

InitHang ==
    HangInit /\ CacheInit /\ AgentDormant /\ ProvDormant /\ PkgDormant /\ DrvDormant
        /\ DirosDormant /\ RegDormant /\ ProgressDormant /\ InstallDormant
        /\ BindingDormant /\ WorkerDormant /\ CaptureDormant /\ ManifestDormant /\ DuckDormant /\ UseDormant /\ RaceDormant
SpecHang == InitHang /\ [][HangNext]_vars

InitDuck ==
    DuckInit /\ CacheInit /\ AgentDormant /\ ProvDormant /\ PkgDormant /\ DrvDormant /\ DirosDormant /\ RegDormant /\ ProgressDormant /\ InstallDormant /\ BindingDormant /\ WorkerDormant /\ CaptureDormant /\ ManifestDormant /\ HangDormant /\ UseDormant /\ RaceDormant
SpecDuck == InitDuck /\ [][DuckNext]_vars

InitUse ==
    UseInit /\ CacheInit /\ AgentDormant /\ ProvDormant /\ PkgDormant /\ DrvDormant /\ DirosDormant /\ RegDormant /\ ProgressDormant /\ InstallDormant /\ BindingDormant /\ WorkerDormant /\ CaptureDormant /\ ManifestDormant /\ HangDormant /\ DuckDormant /\ RaceDormant
SpecUse == InitUse /\ [][UseNext]_vars

InitRace ==
    RaceInit /\ CacheInit /\ AgentDormant /\ ProvDormant /\ PkgDormant /\ DrvDormant /\ DirosDormant /\ RegDormant /\ ProgressDormant /\ InstallDormant /\ BindingDormant /\ WorkerDormant /\ CaptureDormant /\ ManifestDormant /\ HangDormant /\ DuckDormant /\ UseDormant
SpecRace == InitRace /\ [][RaceNext]_vars

----------------------------------------------------------------------------
(* Properties of the connection cache *)

CallIdx == DOMAIN calls

\* call j is the first call for i's fingerprint that returned after call i
NextOnKey(i, j) ==
    /\ i < j
    /\ calls[i].key = calls[j].key
    /\ \A k \in CallIdx : (i < k /\ k < j) => calls[k].key # calls[i].key

DiffersOnlyInPassword(a, b) ==
    /\ a.Password # b.Password
    /\ [a EXCEPT !.Password = b.Password] = b

DiffersOnlyDorisDiros(a, b) ==
    /\ a.Type = TypeDoris
    /\ b.Type = TypeDiros
    /\ [a EXCEPT !.Type = b.Type] = b

\* every object that was stored in the cache and is no longer there has been closed
EvictedAreClosed ==
    \A o \in everStored :
        o \notin CachedObjects => (~objects[o].open /\ objects[o].closes >= 1)

\* at most one object that is still open was connected for any one fingerprint
OneLivePerFingerprint ==
    \A o1, o2 \in everStored :
        (/\ objects[o1].open
         /\ objects[o2].open
         /\ getCacheKey(objects[o1].connCfg) = getCacheKey(objects[o2].connCfg))
        => o1 = o2

\* C1 as stated: in every reachable state of the cache each fingerprint has at most
\* one live connection object and every object that left the cache is closed; a
\* getDatabase call that finds an entry either returns it after a successful ping,
\* or closes it, removes it and stores a new one.
C1_Original ==
    /\ EvictedAreClosed
    /\ OneLivePerFingerprint
    /\ \A i \in CallIdx :
          calls[i].found =>
             \/ (calls[i].pingOK /\ calls[i].ret = calls[i].old)
             \/ (/\ ~objects[calls[i].old].open
                 /\ calls[i].cached # NoObj
                 /\ calls[i].cached # calls[i].old
                 /\ calls[i].ret = calls[i].cached)

\* C1 amended: as C1, but the call that evicts an entry stores a new object only
\* when its Connect succeeds; when Connect fails it returns the error and leaves the
\* fingerprint without an entry.
C1_CacheInvariant ==
    /\ EvictedAreClosed
    /\ OneLivePerFingerprint
    /\ \A i \in CallIdx :
          calls[i].found =>
             \/ (/\ calls[i].pingOK
                 /\ calls[i].ret = calls[i].old
                 /\ calls[i].cached = calls[i].old)
             \/ (/\ ~calls[i].pingOK
                 /\ ~objects[calls[i].old].open
                 /\ calls[i].err = ""
                 /\ calls[i].cached # NoObj
                 /\ calls[i].cached # calls[i].old
                 /\ calls[i].ret = calls[i].cached)
             \/ (/\ ~calls[i].pingOK
                 /\ ~objects[calls[i].old].open
                 /\ calls[i].err # ""
                 /\ calls[i].ret = NoObj
                 /\ calls[i].cached = NoObj)

\* a call found an entry whose ping failed, closed it and stored a replacement
C1_Witness ==
    \E i \in CallIdx :
        /\ calls[i].found
        /\ ~calls[i].pingOK
        /\ calls[i].err = ""
        /\ calls[i].cached = calls[i].ret
        /\ objects[calls[i].old].closes = 1

\* C2: of two successive getDatabase calls with the identical config, the second of
\* which finds the cached connection alive, the second returns the very object the
\* first returned and issues no Connect: that object has been connected exactly once.
C2_CacheReuse ==
    \A i, j \in CallIdx :
        (/\ NextOnKey(i, j)
         /\ calls[i].cfg = calls[j].cfg
         /\ calls[i].err = ""
         /\ calls[j].found
         /\ calls[j].pingOK)
        => /\ calls[j].err = ""
           /\ calls[j].ret = calls[i].ret
           /\ calls[j].nconn = 0
           /\ calls[j].made = NoObj
           /\ objects[calls[j].ret].connects = 1

\* two calls with the identical config returned, the second on a successful ping
C2_Witness ==
    \E i, j \in CallIdx :
        /\ NextOnKey(i, j)
        /\ calls[i].cfg = calls[j].cfg
        /\ calls[i].err = ""
        /\ calls[i].nconn = 1
        /\ calls[j].found
        /\ calls[j].pingOK

\* C3: a getDatabase call whose ping of the cached object fails closes that object,
\* removes it from the cache, issues exactly one Connect, on an object it constructed
\* itself, and never returns the old object.
C3_EvictionReconnects ==
    \A i \in CallIdx :
        (calls[i].found /\ ~calls[i].pingOK)
        => /\ ~objects[calls[i].old].open
           /\ objects[calls[i].old].closes >= 1
           /\ calls[i].cached # calls[i].old
           /\ calls[i].ret # calls[i].old
           /\ calls[i].nconn = 1
           /\ calls[i].made # NoObj
           /\ calls[i].made # calls[i].old
           /\ calls[i].made \notin {calls[k].made : k \in 1..(i - 1)}
           /\ objects[calls[i].made].connects = 1
           /\ objects[calls[i].made].connCfg = calls[i].cfg

\* a ping failed and the reconnect that followed failed too
C3_Witness ==
    \E i \in CallIdx :
        /\ calls[i].found
        /\ ~calls[i].pingOK
        /\ calls[i].err = "connect failed"
        /\ calls[i].nconn = 1

\* C4: configs that differ only in the password have the same fingerprint, so a
\* getDatabase call for b that follows a successful one for a and finds the entry
\* alive returns a's object without any Connect: the object stays authenticated with
\* a's password.
C4_PasswordNotInFingerprint ==
    /\ \A t1, t2 \in Threads :
          DiffersOnlyInPassword(thr[t1].cfg, thr[t2].cfg) => thr[t1].key = thr[t2].key
    /\ \A i, j \in CallIdx :
          DiffersOnlyInPassword(calls[i].cfg, calls[j].cfg) =>
             /\ calls[i].key = calls[j].key
             /\ (/\ NextOnKey(i, j)
                 /\ calls[i].err = ""
                 /\ calls[j].pingOK)
                => /\ calls[j].ret = calls[i].ret
                   /\ calls[j].nconn = 0
                   /\ calls[j].made = NoObj
                   /\ objects[calls[j].ret].connects = 1
                   /\ (calls[i].made = calls[i].ret
                          => objects[calls[j].ret].connCfg.Password = calls[i].cfg.Password)

\* a call with the other password was served from the cache
C4_Witness ==
    \E i, j \in CallIdx :
        /\ DiffersOnlyInPassword(calls[i].cfg, calls[j].cfg)
        /\ NextOnKey(i, j)
        /\ calls[i].err = ""
        /\ calls[j].pingOK
        /\ calls[i].made = calls[j].ret
        /\ objects[calls[j].ret].connCfg.Password # calls[j].cfg.Password

\* C10 as stated: "doris" resolves to the factory of "diros", and two configs that
\* differ only in the type being "doris" or "diros" have the same fingerprint.
C10_DorisSharesFingerprint ==
    /\ dbNewDatabase(registerOptionalDatabaseFactories, TypeDoris)
          = dbNewDatabase(registerOptionalDatabaseFactories, TypeDiros)
    /\ \A t1, t2 \in Threads :
          DiffersOnlyDorisDiros(thr[t1].cfg, thr[t2].cfg) => thr[t1].key = thr[t2].key

\* C17: getDatabase returns an error only when NewDatabase has no binding for the
\* type or Connect fails, never for a failed Ping alone; and when it returns an error
\* the cache has no entry for the fingerprint
C17_ErrorsLeaveNoEntry ==
    \A i \in CallIdx :
        /\ calls[i].err # "" =>
            /\ calls[i].ret = NoObj
            /\ calls[i].cached = NoObj
            /\ \/ /\ calls[i].err = "unsupported database type"
                  /\ ~NewDatabase(calls[i].cfg.Type).ok
                  /\ calls[i].made = NoObj
               \/ /\ calls[i].err = "connect failed"
                  /\ calls[i].made # NoObj
                  /\ ~objects[calls[i].made].open
                  /\ calls[i].made \notin everStored
        /\ (calls[i].found /\ ~calls[i].pingOK /\ calls[i].made \in everStored)
            => calls[i].err = "" /\ calls[i].ret = calls[i].made

\* the Ping of the cached object failed, then Connect of its replacement failed
C17_Witness ==
    \E i \in CallIdx :
        /\ calls[i].found
        /\ ~calls[i].pingOK
        /\ calls[i].err = "connect failed"
        /\ calls[i].cached = NoObj
        /\ ~CacheHas(calls[i].key)

\* the steps of getDatabase and DBConnect made with a.mu held
CriticalSteps == {"gd_lookup", "gd_ping", "gd_evict", "gd_new", "gd_connect", "dc_evict"}

InCriticalSection == {t \in Threads : thr[t].pc \in CriticalSteps}

\* lookup, ping, eviction and insertion of a call are one critical section: at most
\* one caller is in them, and it holds a.mu
OneCriticalSection ==
    /\ Cardinality(InCriticalSection) <= 1
    /\ \A t \in InCriticalSection : mu = t

\* the getDatabase calls that returned an object for the fingerprint
Served(key) ==
    {i \in CallIdx : calls[i].key = key /\ calls[i].op = "getDatabase" /\ calls[i].err = ""}

\* the calls on the fingerprint whose Ping of the cached object failed
PingFailures(key) ==
    {i \in CallIdx : calls[i].key = key /\ calls[i].found /\ ~calls[i].pingOK}

Fingerprints == {getCacheKey(config) : config \in Configs}

SelfDeadlocked(t) == thr[t].pc = "gd_lock" /\ mu = t

\* C36: every DBConnect call terminates and leaves a.mu released, so that no later
\* getDatabase or DBConnect call is blocked for ever: no DBConnect call comes to wait
\* for a.mu while holding it, and a.mu is held only by a call that can still move.
C36_DBConnectTerminates ==
    \A t \in Threads : thr[t].op = "DBConnect" => ~SelfDeadlocked(t)

----------------------------------------------------------------------------
(* Properties of the agent protocol *)

\* the exchanges in which call consumed a response line
Consumed(i) == exchanges[i].outcome \in {"ok", "failed"}

\* C5: the response a call consumes carries the id of the request that call sent,
\* and responses are consumed in the order of the requests: the ids consumed grow
\* from one call to the next, and the line waiting on the worker's stdout answers
\* the request of the call that is reading.
C5_ResponseCorrelation ==
    /\ \A i \in 1..Len(exchanges) :
          Consumed(i) => exchanges[i].respId = exchanges[i].reqId
    /\ \A i, j \in 1..Len(exchanges) :
          (i < j /\ Consumed(i) /\ Consumed(j)) => exchanges[i].respId < exchanges[j].respId
    /\ \A i \in 1..Len(stdoutPipe) : \A t \in Threads :
          caller[t].pc = "c_read" => stdoutPipe[i].id = caller[t].req.id

\* two calls in a row have each consumed the worker's answer to their request
C5_Witness ==
    \E i, j \in 1..Len(exchanges) :
        /\ i < j
        /\ Consumed(i) /\ Consumed(j)
        /\ exchanges[i].reqId = 1 /\ exchanges[j].reqId = 2

\* the callers that hold c.mu: past Lock and not yet returned
InCall == {t \in Threads : caller[t].pc \in {"c_write", "c_read"}}

\* C6: under any interleaving of concurrent callers at most one request is
\* outstanding: at most one caller is between Lock and return, at most one line is
\* in the two pipes together, a request is in the worker's stdin only while its
\* caller waits for the answer and it has the newest id (unless the worker is gone
\* and will never read it), and no caller has consumed a response to another request.
C6_OneOutstandingRequest ==
    /\ Cardinality(InCall) <= 1
    /\ Len(stdinPipe) + Len(stdoutPipe) <= 1
    /\ \A i \in 1..Len(stdinPipe) :
          worker.alive =>
              /\ stdinPipe[i].id = client.nextID
              /\ \E t \in Threads : caller[t].pc = "c_read" /\ caller[t].req = stdinPipe[i]
    /\ \A i \in 1..Len(stdoutPipe) :
          \E t \in Threads : caller[t].pc = "c_read" /\ caller[t].req.id = stdoutPipe[i].id
    /\ \A t \in Threads : caller[t].pc \in {"c_write", "c_read"} => client.mu = t
    /\ \A i \in 1..Len(exchanges) :
          exchanges[i].respId # 0 => exchanges[i].respId = exchanges[i].reqId

\* one caller waits for the worker's answer while the other is blocked on c.mu,
\* after an earlier call has completed
C6_Witness ==
    \E t1, t2 \in Threads :
        /\ caller[t1].pc = "c_read"
        /\ caller[t2].pc = "c_lock"
        /\ stdinPipe # << >>
        /\ Len(exchanges) >= 1

\* C7: connect and close are accepted in any state (they never answer "connection
\* not open"); any other method, the unknown one included, handled when no connect
\* has succeeded yet or a close has succeeded since the last successful connect,
\* answers a failure with error "connection not open", invokes no operation of an
\* engine binding, and leaves *inst and the data as they were.
C7_NotOpenGuard ==
    lastHandled.method # "" =>
        /\ lastHandled.method \in {"connect", "close"} =>
                lastHandled.resp.error # ErrNotOpen
        /\ (lastHandled.method \notin {"connect", "close"} /\ ~lastHandled.wasConnected) =>
                /\ ~lastHandled.resp.success
                /\ lastHandled.resp.error = ErrNotOpen
                /\ ~lastHandled.touched
                /\ lastHandled.dataAfter = lastHandled.dataBefore
                /\ worker.inst = lastHandled.instBefore

\* a method other than connect and close was refused after a connect and then a
\* close had succeeded
C7_Witness ==
    /\ lastHandled.method \in {"ping", "getTables", "exec", "applyChanges", UnknownMethod}
    /\ ~lastHandled.wasConnected
    /\ lastHandled.resp.error = ErrNotOpen
    /\ Len(worker.insts) >= 1
    /\ worker.inst = NilInst

\* C8: applyChanges handled while *inst is a binding without the ApplyChanges
\* method answers a failure, invokes no operation of the binding and leaves the
\* engine's data unchanged; when the request carries a change set the error is
\* the not-supported one.
C8_UnsupportedApplyChanges ==
    (/\ lastHandled.method = "applyChanges"
     /\ lastHandled.instBefore # NilInst
     /\ ~hasApplier) =>
        /\ ~lastHandled.resp.success
        /\ ~lastHandled.touched
        /\ lastHandled.dataAfter = lastHandled.dataBefore
        /\ lastHandled.hasChanges => lastHandled.resp.error = ErrNotSupported

\* applyChanges with a change set was refused by a connected binding that lacks
\* ApplyChanges, after an exec had changed the data
C8_Witness ==
    /\ lastHandled.method = "applyChanges"
    /\ lastHandled.hasChanges
    /\ lastHandled.instBefore # NilInst
    /\ worker.insts[lastHandled.instBefore]
    /\ ~hasApplier
    /\ lastHandled.resp.error = ErrNotSupported
    /\ engineData >= 1

\* C31: the ids one client gives to its requests are 1, 2, 3, ...: the k-th call to
\* pass c.mu.Lock() gets id k, whatever the interleaving of the callers and however
\* the earlier calls ended (marshal, write or read error, failure response, success).
C31_SequentialIds ==
    /\ \A i \in 1..Len(exchanges) : exchanges[i].reqId = i
    /\ \A t \in InCall : caller[t].req.id = Len(exchanges) + 1
    /\ client.nextID = Len(exchanges) + Cardinality(InCall)

\* a call has returned after a marshal error and one after a failure response, and
\* a third has sent its request with id 3
C31_Witness ==
    /\ Len(exchanges) = 2
    /\ exchanges[1].outcome = "marshal error"
    /\ exchanges[2].outcome = "failed"
    /\ \E t \in Threads : caller[t].pc = "c_read" /\ caller[t].req.id = 3
    /\ \E i \in 1..Len(stdinPipe) : stdinPipe[i].id = 3

\* C37: in the worker a current instance that is not nil is open: it is the one the
\* last successful connect made and nothing has closed it; and the request handled
\* last, when it went to the current instance, went to an open one.
C37_CurrentInstanceOpen ==
    /\ worker.inst # NilInst => worker.insts[worker.inst]
    /\ (lastHandled.touched /\ lastHandled.method \notin {"connect", "close"})
            => worker.insts[lastHandled.instBefore]

----------------------------------------------------------------------------
(* Properties of provisioning *)

\* the case of C9: nothing at the target path when the run starts, and a regular
\* file at one of the local candidate paths other than the target path
LocalCandidateCase ==
    /\ provEnv.target = "none"
    /\ \E i \in 1..Len(provEnv.candidates) : provEnv.candidates[i] = "file"

\* C9 as stated: with no file at the target path and a pre-built binary at a local
\* candidate path, the run succeeds by the copy, with no download and no build.
C9_Original ==
    (LocalCandidateCase /\ prov.pc = "done") =>
        /\ prov.result = "ok"
        /\ prov.source = "file://"
        /\ prov.downloads = 0 /\ prov.builds = 0

\* C9: with no file at the target path and a pre-built binary at a local candidate
\* path, the run attempts no download and no build; it copies at most once; it
\* succeeds only by the copy, the file at the target path then being the copied
\* one; and it fails only when creating the directory, the copy or the hashing of
\* the copied file fails.
C9_LocalCandidateCopy ==
    LocalCandidateCase =>
        /\ prov.downloads = 0 /\ prov.builds = 0
        /\ prov.copies <= 1
        /\ prov.result = "ok" =>
                /\ prov.source = "file://"
                /\ prov.copies = 1
                /\ fsTarget.kind = "file" /\ fsTarget.from = "copy"
        /\ prov.result = "error" =>
                prov.err \in {"mkdir", "copy", "hash of copied agent"}

\* a run that found a local candidate behind a skipped one and succeeded by copying it
C9_Witness ==
    /\ LocalCandidateCase
    /\ prov.pc = "done"
    /\ prov.result = "ok"
    /\ prov.source = "file://"
    /\ prov.src = 2
    /\ fsTarget.kind = "file"

----------------------------------------------------------------------------
(* Properties of the driver packages *)

\* a manifest entry that specifies a download URL and nothing else
OnlyDownloadURL(item) ==
    /\ TrimSpace(item.DownloadURL) # << >> \/ TrimSpace(item.DownloadURL2) # << >>
    /\ TrimSpace(item.Version) = << >>
    /\ TrimSpace(item.SHA256) = << >>
    /\ TrimSpace(item.ChecksumPolicy) = << >> /\ TrimSpace(item.ChecksumPolicy2) = << >>
    /\ TrimSpace(item.Engine) = << >>

\* the download URL of a manifest entry: downloadUrl, or download_url when that is blank
ManifestURL(item) ==
    IF TrimSpace(item.DownloadURL) # << >> THEN TrimSpace(item.DownloadURL)
    ELSE TrimSpace(item.DownloadURL2)

\* the entries of the manifest under names of one engine
EntriesFor(normalizedType) ==
    {i \in 1..Len(pkg.manifest.Drivers) :
        normalizeDriverType(pkg.manifest.Drivers[i].key) = normalizedType}

\* C11: when the manifest was loaded and its only entry for an engine specifies just
\* a download URL, the effective package of that engine has the pinned version,
\* unchanged, and the manifest's download URL.
C11_ManifestURLKeepsVersion ==
    (pkg.pc \in {"define", "done"} /\ pkg.loadOK) =>
        \A i \in 1..Len(pkg.manifest.Drivers) :
            LET entry == pkg.manifest.Drivers[i]
                t == normalizeDriverType(entry.key)
            IN  (t # << >> /\ EntriesFor(t) = {i} /\ OnlyDownloadURL(entry.item)) =>
                    /\ Text(t) \in DOMAIN pkg.effective
                    /\ pkg.effective[Text(t)].Version = driverPinnedPackage(t).Version
                    /\ pkg.effective[Text(t)].DownloadURL = ManifestURL(entry.item)

\* the manifest overrides only the download URL of the pinned engine, under its
\* alias, and the effective package keeps the pinned version
C11_Witness ==
    /\ pkg.pc = "done"
    /\ pkg.loadOK
    /\ \E i \in 1..Len(pkg.manifest.Drivers) :
          /\ Text(normalizeDriverType(pkg.manifest.Drivers[i].key)) = "postgres"
          /\ pkg.manifest.Drivers[i].key # TypePostgres
          /\ OnlyDownloadURL(pkg.manifest.Drivers[i].item)
    /\ Text(pkg.effective["postgres"].Version) = "go-embedded"
    /\ pkg.effective["postgres"].DownloadURL # << >>

\* the checksum policy an entry of the manifest specifies, blank when it has none
ManifestPolicy(item) ==
    IF TrimSpace(item.ChecksumPolicy) # << >> THEN TrimSpace(item.ChecksumPolicy)
    ELSE TrimSpace(item.ChecksumPolicy2)

\* the manifest's value of a field when the entry specifies it, else the pinned one
Override(specified, pinned) == IF specified # << >> THEN specified ELSE pinned

\* C32: when the manifest was loaded, each of version, download URL, checksum and
\* checksum policy of an effective package is the value of the engine's manifest
\* entry when the entry specifies that field, and the pinned value otherwise; an
\* entry without a checksum policy leaves the pinned policy as it is.
C32_PerFieldOverride ==
    (pkg.pc \in {"define", "done"} /\ pkg.loadOK) =>
        \A i \in 1..Len(pkg.manifest.Drivers) :
            LET entry == pkg.manifest.Drivers[i]
                t == normalizeDriverType(entry.key)
                pinned == driverPinnedPackage(t)
            IN  (t # << >> /\ EntriesFor(t) = {i}) =>
                    /\ Text(t) \in DOMAIN pkg.effective
                    /\ pkg.effective[Text(t)].Version =
                            Override(TrimSpace(entry.item.Version), pinned.Version)
                    /\ pkg.effective[Text(t)].DownloadURL =
                            Override(ManifestURL(entry.item), pinned.DownloadURL)
                    /\ pkg.effective[Text(t)].SHA256 =
                            Override(TrimSpace(entry.item.SHA256), pinned.SHA256)
                    /\ pkg.effective[Text(t)].Policy =
                            IF ManifestPolicy(entry.item) # << >>
                                THEN normalizeDriverChecksumPolicy(ManifestPolicy(entry.item))
                                ELSE pinned.Policy

----------------------------------------------------------------------------
(* Properties of the driver runtime support (SpecStatus) *)

\* the files of the engine of the last query, in the driver directory in force
LastFiles == InstallDirOf(drv, drv.dir, normalizeRuntimeDriverType(drv.last.type))

\* C12: whatever was installed, removed or changed in the driver directories, a
\* built-in engine (mysql, redis, oracle, postgres) has runtime support, and the
\* status list reports it installed and connectable, with or without installed.json
C12_BuiltinAlwaysAvailable ==
    /\ (drv.last.op = "status" /\ IsBuiltinDriver(drv.last.type))
        => drv.last.available /\ drv.last.reason = ""
    /\ (drv.last.op = "list" /\ drv.last.ok)
        => \A definition \in coreBuiltinDrivers :
            /\ drv.last.items[definition].RuntimeAvailable
            /\ drv.last.items[definition].PackageInstalled
            /\ drv.last.items[definition].Connectable

\* a status list taken in another driver directory, after an install, where postgres
\* has no installed.json
C12_Witness ==
    /\ drv.last.op = "list" /\ drv.last.ok
    /\ drv.dir = "d2"
    /\ drv.disk["d2"][TypePostgres].marker = "none"
    /\ drv.disk["d2"][TypeMariaDB].marker = "file"
    /\ drv.last.items[TypePostgres].Connectable

\* C14: DriverRuntimeSupportStatus of an optional engine answers available exactly
\* when the build includes the engine, installed.json is a regular file in the
\* engine's install directory and the agent executable is a regular file at its
\* conventional path; every other answer carries a reason
C14_OptionalAvailableIff ==
    (drv.last.op = "status" /\ IsOptionalGoDriver(drv.last.type))
        => /\ drv.last.available
                <=> /\ IsOptionalGoDriverBuildIncluded(drv, drv.last.type)
                    /\ LastFiles.marker = "file"
                    /\ LastFiles.exe = "file"
           /\ ~drv.last.available => drv.last.reason # ""

\* an optional engine answered available, and one answered unavailable although its
\* installed.json is there
C14_Witness ==
    /\ drv.last.op = "status" /\ IsOptionalGoDriver(drv.last.type)
    /\ drv.last.available
    /\ drv.dir = "d2"

\* the operations that put files into an install directory
InstallingOps == {"download", "install", "disk"}

\* the engine has no runtime support, whatever the resolutions of the root give
ReportsUnavailable(d, engine) ==
    \A rootOK1 \in RootOutcomes(d, d.dir), rootOK2 \in RootOutcomes(d, d.dir) :
        ~DriverRuntimeSupportStatus(d, engine, rootOK1, rootOK2).available

\* C23: a successful RemoveDriverPackage is one for an optional engine and leaves
\* neither installed.json nor the agent executable in the engine's install
\* directory, and the engine reports not available there; an install directory
\* without files gets files again only by an install (or by the user's own hand);
\* RemoveDriverPackage for a built-in engine fails and leaves the disk as it was.
C23_RemoveReturnsToNotInstalled ==
    [][ /\ (drv'.last.op = "remove" /\ drv' # drv) =>
            LET engine == normalizeDriverType(drv'.last.type) IN
            /\ drv'.last.ok =>
                /\ IsOptionalGoDriver(engine)
                /\ InstallDirOf(drv', drv'.last.dir, engine) = NoFiles
                /\ drv'.dir = drv'.last.dir => ReportsUnavailable(drv', engine)
            /\ DefinitionBuiltIn(drv'.last.type) =>
                ~drv'.last.ok /\ drv'.disk = drv.disk /\ drv'.dir = drv.dir
        /\ \A dir \in DriverDirs, engine \in DiskEngines :
            (drv.disk[dir][engine] = NoFiles /\ drv'.disk[dir][engine] # NoFiles)
                => drv'.last.op \in InstallingOps
      ]_vars

\* MariaDB was installed in the directory in force, with installed.json and the
\* agent executable, and a RemoveDriverPackage has just removed it
C23_Witness ==
    /\ drv.last.op = "remove" /\ drv.last.ok
    /\ normalizeDriverType(drv.last.type) = TypeMariaDB
    /\ drv.last.had = [marker |-> "file", exe |-> "file"]
    /\ drv.dir = drv.last.dir
    /\ TypeMariaDB \in drv.build
    /\ InstallDirOf(drv, drv.dir, TypeMariaDB) = NoFiles

----------------------------------------------------------------------------
(* Properties of DirosDB.Connect (SpecDiros) *)

\* the addresses Connect attempted, in the order of the attempts
AttemptedAddresses == [i \in DOMAIN diros.attempts |-> diros.attempts[i].address]

\* the entries Connect reads the addresses from
Candidates ==
    IF Len(diros.config.Hosts) > 0 THEN diros.config.Hosts ELSE <<diros.config.Host>>

\* the addresses the entries of the config name
ConfiguredAddresses ==
    {normalizedAddress(Candidates[k]) : k \in DOMAIN Candidates} \ {NoAddress}

\* the place of the first entry of the config that names the address
FirstIndex(address) ==
    CHOOSE k \in DOMAIN Candidates :
        /\ normalizedAddress(Candidates[k]) = address
        /\ \A j \in 1..(k - 1) : normalizedAddress(Candidates[j]) # address

\* C13: Connect attempts the addresses in the order the config lists them; when the
\* config names two addresses, the first fails to open or to ping and the second
\* succeeds, Connect returns success bound to the second address; no address is
\* attempted after the first success
C13_FailoverInListOrder ==
    LET n == Len(diros.attempts) IN
    /\ \A i \in 1..n : diros.attempts[i].address \in ConfiguredAddresses
    /\ \A i, j \in 1..n :
        i < j => FirstIndex(diros.attempts[i].address) < FirstIndex(diros.attempts[j].address)
    /\ \A i \in 1..n : diros.attempts[i].outcome = "ok" => i = n /\ diros.pc = "done"
    /\ (/\ diros.pc = "done"
        /\ Cardinality(ConfiguredAddresses) = 2
        /\ n = 2
        /\ diros.attempts[1].outcome # "ok"
        /\ diros.attempts[2].outcome = "ok")
       => /\ diros.result = "ok"
          /\ diros.conn = diros.attempts[2].address
          /\ \A address \in ConfiguredAddresses :
                FirstIndex(diros.attempts[1].address) <= FirstIndex(address)

\* two addresses, the first fails to ping and is closed, the second succeeds
C13_Witness ==
    /\ diros.pc = "done"
    /\ Len(diros.addresses) = 2
    /\ Len(diros.attempts) = 2
    /\ diros.attempts[1].outcome = "ping fails"
    /\ diros.attempts[2].outcome = "ok"
    /\ diros.conn = "b:9031"

----------------------------------------------------------------------------
(* Properties of the factory registry (SpecRegistry) *)

\* the name NewDatabase of package db looks up
LookedUp(dbType) ==
    IF normalizeDatabaseType(dbType) = << >>
        THEN "mysql" ELSE Text(normalizeDatabaseType(dbType))

Unsupported(result) == ~result.ok /\ result.kind = "unsupported database type"

IsLookup == reg.last.op \in {"db.NewDatabase", "NewDatabase"}

\* the names the connection layer's NewDatabase has a binding for
SwitchCases == {"mysql", "postgres", "sqlite"}

\* C15 as the specification states it: either NewDatabase returns the MySQL binding
\* for a type that is empty or only whitespace
C15_Original ==
    (IsLookup /\ TrimSpace(reg.last.dbType) = << >>)
        => reg.last.result.ok /\ reg.last.result.kind = "MySQLDB"

\* C15, amended: a type whose normalized name has no factory gets "unsupported
\* database type" and no object from either NewDatabase; package db's NewDatabase
\* returns the MySQL binding for a type that is empty or only whitespace; the
\* connection layer's NewDatabase returns it for the empty type only, and answers
\* "unsupported database type" for a type of whitespace
C15_UnsupportedAndDefault ==
    /\ (reg.last.op = "db.NewDatabase" /\ LookedUp(reg.last.dbType) \notin DOMAIN reg.factories)
        => Unsupported(reg.last.result)
    /\ (reg.last.op = "db.NewDatabase" /\ TrimSpace(reg.last.dbType) = << >>)
        => reg.last.result.ok /\ reg.last.result.kind = "MySQLDB"
    /\ (reg.last.op = "NewDatabase" /\ LookedUp(reg.last.dbType) \notin SwitchCases)
        => Unsupported(reg.last.result)
    /\ (reg.last.op = "NewDatabase" /\ reg.last.dbType = << >>)
        => reg.last.result.ok /\ reg.last.result.kind = "MySQLDB"
    /\ (reg.last.op = "NewDatabase" /\ TrimSpace(reg.last.dbType) = << >>
            /\ reg.last.dbType # << >>)
        => Unsupported(reg.last.result)

\* package db's NewDatabase was called with whitespace, after a registration
C15_Witness ==
    /\ reg.last.op = "db.NewDatabase"
    /\ reg.last.dbType = <<" ", "\t">>
    /\ reg.registrations > 0
    /\ reg.last.result.kind = "MySQLDB"

\* the names a registration call writes
WrittenNames(dbTypes) ==
    {Text(normalizeDatabaseType(dbTypes[i])) : i \in DOMAIN dbTypes} \ {""}

\* C16: after a registration each normalized name has one factory, the one of the
\* most recent registration under that name; registering the same factory under the
\* same names again changes nothing; a nil factory or an empty name changes nothing
C16_LastRegistrationWins ==
    reg.last.op = "register" =>
        LET written == IF reg.last.factory = NilFactory
                          THEN {} ELSE WrittenNames(reg.last.dbTypes)
        IN  /\ DOMAIN reg.factories = DOMAIN reg.last.before \cup written
            /\ \A name \in DOMAIN reg.factories :
                reg.factories[name] = IF name \in written
                                         THEN reg.last.factory
                                         ELSE reg.last.before[name]
            /\ registerDatabaseFactory(reg.factories, reg.last.factory, reg.last.dbTypes)
                = reg.factories
            /\ "" \notin DOMAIN reg.factories

\* a second registration replaced the factory of a name registered before
C16_Witness ==
    /\ reg.last.op = "register"
    /\ reg.registrations = 2
    /\ reg.last.factory = "CustomDB"
    /\ "foo" \in DOMAIN reg.last.before
    /\ reg.last.before["foo"] # "CustomDB"
    /\ reg.factories["foo"] = "CustomDB"
    /\ Len(reg.last.dbTypes) = 2

----------------------------------------------------------------------------
(* Properties of provisioning: checksum policy and fallback (SpecProv) *)

DownloadURLs == resolveOptionalDriverAgentDownloadURLs(provEnv.rawURL, provEnv.versionKnown)

\* the run returned one of the download URLs as its source
ReturnedDownload ==
    /\ prov.pc = "done" /\ prov.result = "ok"
    /\ \E i \in DOMAIN DownloadURLs : DownloadURLs[i] = prov.source

\* C19: under the policy "strict" a downloaded binary whose SHA-256 differs from the
\* expected one is rejected: it is not put at the target path and the attempt counts
\* as failed
C19_StrictRejectsMismatch ==
    (/\ provEnv.policy = "strict"
     /\ provEnv.expectedSHA # NoDigest
     /\ ReturnedDownload)
        => /\ prov.hash = provEnv.expectedSHA
           /\ fsTarget.from = "download"

\* the sources a run has tried so far, in the order of the attempts
Attempted ==
    (IF prov.copies > 0 THEN <<"file://">> ELSE << >>)
        \o SubSeq(DownloadURLs, 1, prov.downloads)
        \o (IF prov.builds > 0 THEN <<"local://go-build">> ELSE << >>)

\* the errors returned before any source is tried
BeforeSources == {"hash of installed agent", "path is a directory", "mkdir"}

ExplicitUsable == provEnv.rawURL.scheme \in {"http", "https"}

\* the position of a URL in the list of download URLs, 0 when it is not in it
PositionOf(url) ==
    IF \E i \in DOMAIN DownloadURLs : DownloadURLs[i] = url
        THEN CHOOSE i \in DOMAIN DownloadURLs : DownloadURLs[i] = url
        ELSE 0

\* the URLs a run has contacted so far, in the order of the downloads: those that
\* failed, then the one that succeeded
Contacted ==
    SelectSeq(prov.named, LAMBDA n : n \notin {"file://", "local://go-build"})
        \o (IF ReturnedDownload THEN <<prov.source>> ELSE << >>)

\* C34: the list of download URLs holds the caller's URL first, when and only when
\* its scheme is http or https, then the URL of the release asset of the current
\* version, when and only when that version is known, then the URL of the latest
\* release asset, each URL once; the downloads go through the list in that order,
\* one attempt per URL, and end with the first that succeeds.
C34_DownloadOrder ==
    /\ \A i, j \in DOMAIN DownloadURLs : DownloadURLs[i] = DownloadURLs[j] => i = j
    /\ {DownloadURLs[i] : i \in DOMAIN DownloadURLs}
            = (IF ExplicitUsable THEN {provEnv.rawURL.text} ELSE {})
                \cup (IF provEnv.versionKnown THEN {VersionURL} ELSE {})
                \cup {LatestURL}
    /\ ExplicitUsable => DownloadURLs[1] = provEnv.rawURL.text
    /\ provEnv.versionKnown /\ PositionOf(LatestURL) # 1 =>
            PositionOf(VersionURL) < PositionOf(LatestURL)
    /\ Contacted = SubSeq(DownloadURLs, 1, prov.downloads)
    /\ ReturnedDownload =>
            /\ prov.source = DownloadURLs[prov.downloads]
            /\ prov.downloadErrs = prov.downloads - 1
    /\ prov.downloads > 0 /\ ~ReturnedDownload => prov.downloadErrs = prov.downloads

\* three URLs; the caller's failed, the version's succeeded, the latest was not
\* contacted
C34_Witness ==
    /\ DownloadURLs = <<"https://mirror/asset", VersionURL, LatestURL>>
    /\ ReturnedDownload
    /\ prov.source = VersionURL
    /\ prov.named = <<"https://mirror/asset">>
    /\ prov.downloads = 2

\* the case of C33: a regular file at the target path when the run starts
ExistingFileCase == provEnv.target = "file"

\* C33 as stated: with a regular file at the target path the run copies, downloads
\* and builds nothing, leaves the file as it is and returns the file's SHA-256 with
\* the source "local://existing"
C33_Original ==
    (ExistingFileCase /\ prov.pc = "done") =>
        /\ prov.copies = 0 /\ prov.downloads = 0 /\ prov.builds = 0
        /\ fsTarget \in ExistingAt("file")
        /\ prov.result = "ok"
        /\ prov.source = "local://existing"
        /\ prov.hash = fsTarget.digest

\* C33: with a regular file at the target path the run copies, downloads and builds
\* nothing, emits no progress event and leaves the file as it is; it ends at the
\* first step, either with the file's SHA-256 and the source "local://existing", or,
\* when the file cannot be hashed, with that error and no digest.
C33_ExistingFileReused ==
    ExistingFileCase =>
        /\ prov.copies = 0 /\ prov.downloads = 0 /\ prov.builds = 0
        /\ prov.progress = << >>
        /\ fsTarget \in ExistingAt("file")
        /\ prov.pc \in {"stat", "done", "off"}
        /\ prov.result = "ok" =>
                /\ prov.source = "local://existing"
                /\ prov.hash = fsTarget.digest
        /\ prov.result = "error" =>
                /\ prov.err = "hash of installed agent"
                /\ prov.hash = NoDigest

\* a run that found a file of digest "sha-b" at the target path, with a local
\* candidate and a usable URL at hand, and returned the file's digest
C33_Witness ==
    /\ ExistingFileCase
    /\ prov.pc = "done" /\ prov.result = "ok"
    /\ prov.source = "local://existing"
    /\ prov.hash = "sha-b" /\ fsTarget.digest = "sha-b"
    /\ \E i \in 1..Len(provEnv.candidates) : provEnv.candidates[i] = "file"
    /\ provEnv.rawURL.scheme = "https"

----------------------------------------------------------------------------
(* Properties of the progress events (SpecProgress) *)

\* C21: every progress event emitted has a percentage between 0 and 100, whatever
\* the downloaded and total counts are (negative, zero, downloaded above total), and
\* every event whose status is "done" has the percentage 100.
C21_PercentInRange ==
    \A i \in DOMAIN progress.events :
        LET event == progress.events[i] IN
        /\ event.Percent.den > 0
        /\ ~PercentBelow(event.Percent, 0)
        /\ ~PercentAbove(event.Percent, 100)
        /\ event.Status = StatusDone => event.Percent.num = 100 * event.Percent.den

\* a "done" event was emitted for a negative downloaded count
C21_Witness ==
    \E i \in DOMAIN progress.events :
        /\ progress.events[i].Status = StatusDone
        /\ progress.events[i].Downloaded < 0
        /\ progress.events[i].Total > 0
        /\ progress.events[i].Percent = Percent(100, 1)

----------------------------------------------------------------------------
(* Properties of a DownloadDriverPackage run (SpecInstall) *)

\* the events of the run in the order of their emission: the "start" event, the
\* events of ensureOptionalDriverAgentBinary, the events after it
DownloadEvents ==
    install.head
        \o (IF install.ctx
              THEN [i \in 1..Len(prov.progress) |->
                        progressPayload(install.type, StatusDownloading,
                                        prov.progress[i], 100)]
              ELSE << >>)
        \o install.tail

TerminalStatuses == {StatusDone, StatusError}

\* the run passed the checks of the definition, the build and the directory
RunStarted == install.pc \in {"agent", "returned"} /\ install.result # "refused"

RunReturned == install.pc = "returned" /\ install.result # "refused"

\* "start" first, "downloading" in between, a terminal event last and only last
EventsWellFormed ==
    LET events == DownloadEvents
        n == Len(events)
    IN  /\ n >= 1
        /\ events[1].Status = StatusStart
        /\ \A i \in 2..n : events[i].Status # StatusStart
        /\ \A i \in 1..n : events[i].Status \in TerminalStatuses => i = n /\ RunReturned
        /\ \A i \in 2..(n - 1) : events[i].Status = StatusDownloading
        /\ RunReturned => n >= 2 /\ events[n].Status \in TerminalStatuses

\* success and "done" go together, and with the executable in place and
\* installed.json written whole by this run
DoneIffInstalled ==
    RunReturned =>
        /\ install.result = "ok" <=>
                /\ fsTarget.kind = "file"
                /\ install.marker = [kind |-> "file", content |-> "complete"]
        /\ install.ctx =>
                (install.result = "ok" <=>
                    DownloadEvents[Len(DownloadEvents)].Status = StatusDone)

ProgressStatusesOfRun == {StatusStart, StatusDownloading, StatusDone}

\* p < q for two quotients
PercentLess(p, q) == p.num * q.den < q.num * p.den

\* C40: within one DownloadDriverPackage run the percentages of the successive
\* "start", "downloading" and "done" events never decrease.
C40_PercentNeverDecreases ==
    \A i, j \in 1..Len(DownloadEvents) :
        (/\ i < j
         /\ DownloadEvents[i].Status \in ProgressStatusesOfRun
         /\ DownloadEvents[j].Status \in ProgressStatusesOfRun)
            => ~PercentLess(DownloadEvents[j].Percent, DownloadEvents[i].Percent)

----------------------------------------------------------------------------
(* Properties of the agent-backed binding (SpecBinding) *)

\* a method of the binding was called and returned in this step
Returns(op) ==
    /\ binding'.ops = binding.ops + 1
    /\ binding'.last.op = op
    /\ ~binding'.hung

\* C24: Close on a binding without a client returns nil, sends no request and
\* touches no process; after a Close the binding has no client, and it has none
\* until a Connect: every contract method called meanwhile fails with "connection
\* not open" and sends nothing.
C24_CloseIdempotent ==
    [][ /\ (Returns("Close") /\ binding.client = NoClient) =>
            /\ binding'.last.err = ""
            /\ binding'.requests = binding.requests
            /\ binding'.procs = binding.procs
        /\ Returns("Close") => binding'.client = NoClient
        /\ (binding.client = NoClient /\ binding'.client # NoClient) => Returns("Connect")
        /\ \A method \in CalledMethods :
            (Returns(method) /\ binding.client = NoClient) =>
                /\ binding'.last.err = ErrNotOpen
                /\ binding'.requests = binding.requests
                /\ binding'.procs = binding.procs
      ]_vars

\* a Close on a binding that was connected and closed before
C24_Witness ==
    /\ binding.last = BindingOp("Close", FALSE, "")
    /\ binding.ops = 3
    /\ binding.procs = <<"reaped">>
    /\ binding.requests = 2

\* the worker processes of the binding that were not waited for
Unreaped == {i \in DOMAIN binding.procs : binding.procs[i] # "reaped"}

\* C25: after every completed Connect or Close the binding has one worker process
\* not yet killed and waited for if it holds a client, and none otherwise; the
\* process of the client is the one the last Connect spawned.
C25_OneWorkerPerClient ==
    ~binding.hung =>
        /\ Cardinality(Unreaped) = IF binding.client # NoClient THEN 1 ELSE 0
        /\ binding.client # NoClient =>
            /\ Unreaped = {binding.client}
            /\ binding.client = Len(binding.procs)

\* a second Connect replaced the first worker, and a third failed its handshake
C25_Witness ==
    /\ binding.last.op = "Connect" /\ binding.last.err = "failed"
    /\ binding.last.had
    /\ binding.procs = <<"reaped", "reaped", "reaped">>
    /\ binding.client = NoClient

(* Properties of the worker process *)

\* the engine connections the worker holds open
OpenConnections == {i \in 1..Len(wk.insts) : wk.insts[i]}

WorkerGone == wk.pc \in {"exited", "killed"}

\* the worker has left its loop
StoppedReading == wk.pc \in {"closing", "exited", "killed"}

\* a worker that has left its loop takes no further line
NoReadAfterStop == [][StoppedReading => wk'.reads = wk.reads /\ StoppedReading']_vars

\* a worker that returned from main holds no open connection
ExitClosesConnection == wk.pc = "exited" => OpenConnections = {}

\* C26 as stated: whenever a response could not be written the worker has stopped
\* reading; a worker that returned holds no open connection; at most one connection
\* is open at any moment.
C26_Original ==
    /\ Cardinality(OpenConnections) <= 1
    /\ ExitClosesConnection
    /\ wk.failedWrite => StoppedReading

\* C26: once the worker's stdin is closed, or once the answer to a request that was
\* parsed could not be written, the worker takes no further line, closes the engine
\* connection it holds and terminates; at every moment it holds at most one open
\* engine connection.  (A failed write of the answer to a line that is not valid
\* JSON is ignored: the worker reads on.)
C26_WorkerStops ==
    /\ [](Cardinality(OpenConnections) <= 1)
    /\ [](ExitClosesConnection)
    /\ [][wk.pc = "respond" /\ wk'.pc # "respond" /\ wk.line.kind = "request"
              /\ wk'.out = wk.out
            => wk'.pc \in {"closing", "killed"}]_vars
    /\ NoReadAfterStop
    /\ (wk.stdinClosed ~> WorkerGone)
    /\ (StoppedReading ~> WorkerGone)

\* the worker connected twice, its stdin was closed, and it returned from main
C26_Witness ==
    /\ wk.pc = "exited"
    /\ wk.reason = "eof"
    /\ wk.inst = 2
    /\ wk.insts = <<FALSE, FALSE>>

\* the answers written so far are the answers to the lines taken so far, in order,
\* short of the one being handled
AnswersMatchReads ==
    /\ wk.pc = "scan" => wk.out = wk.reads
    /\ wk.pc = "respond" =>
        /\ Len(wk.reads) = Len(wk.out) + 1
        /\ wk.out = SubSeq(wk.reads, 1, Len(wk.out))

\* the k-th non-empty line is answered, unless the worker leaves its loop or its
\* stdout cannot be written
Answered(k) ==
    Len(wk.reads) >= k
        ~> \/ Len(wk.out) >= k /\ wk.out[k] = wk.reads[k]
           \/ StoppedReading
           \/ wk.failedWrite

C27_StderrBounded == Len(capture.stderr) <= MaxLineLen

\* C27, second part: the stderr text only grows by appending, and no stderr line is
\* parsed as a response (what call parses came through stdout).
C27_StderrOnlyAppended ==
    [][/\ Len(capture'.stderr) >= Len(capture.stderr)
       /\ SubSeq(capture'.stderr, 1, Len(capture.stderr)) = capture.stderr
       /\ capture'.stderr # capture.stderr
            => capture'.parsed = capture.parsed /\ capture'.reader = capture.reader]_vars

\* the worker wrote three lines to stderr and all three are in the buffer
C27_Witness ==
    /\ capture.lines = 3
    /\ Len(capture.stderr) = 9
    /\ capture.parsed = << >>

(* Properties of the manifest cache *)

\* the entry under url was loaded less than the time-to-live ago
FreshEntry(url) ==
    /\ mc.cache[url] # NoEntry
    /\ mc.now - mc.cache[url].LoadedAt < driverManifestCacheTTL

\* a resolve within the time-to-live: no fetch, the cache untouched, and the result
\* of the load that made the entry
ServedFromCache(url) ==
    /\ mc'.last.kind = "hit"
    /\ mc'.cache = mc.cache
    /\ mc'.loaded = mc.loaded
    /\ mc'.last.packages = mc.loaded[url].packages
    /\ mc'.last.err = mc.loaded[url].err

\* a resolve without a fresh entry: a fetch, and an entry that holds nothing but the
\* time of the load and what the load gave
Reloaded(url) ==
    LET now == loadManifest(url, mc.remote) IN
    /\ mc'.last.kind = "load"
    /\ mc'.cache[url] = [LoadedAt |-> mc.now, Packages |-> now.packages, Err |-> now.err]
    /\ mc'.last.packages = now.packages
    /\ mc'.last.err = now.err
    /\ \A other \in ResolvedURLs \ {url} : mc'.cache[other] = mc.cache[other]

\* C28: a resolve of an address whose resolved source was loaded less than 5 minutes
\* ago fetches nothing and returns the package set, or the error, that load returned;
\* a resolve at 5 minutes or later fetches again and replaces the entry as a whole;
\* and a caller that changes a map it was given changes nothing the cache holds.
C28_ManifestCache ==
    [][/\ mc'.resolves # mc.resolves /\ mc'.last.kind # "refused" =>
            IF FreshEntry(mc'.last.url) THEN ServedFromCache(mc'.last.url)
                                        ELSE Reloaded(mc'.last.url)
       /\ mc'.mutations # mc.mutations => mc'.cache = mc.cache]_vars

\* the remote manifest was loaded, loaded again after five minutes with another
\* content, the caller changed a map it was given, and the resolve after that was
\* served from the cache with the content of the second load
C28_Witness ==
    /\ mc.last.kind = "hit"
    /\ mc.last.url = RemoteManifestURL
    /\ mc.loaded[RemoteManifestURL].packages = loadManifestPackages(ManifestB)
    /\ mc.resolves = 3
    /\ mc.mutations = 1
    /\ mc.held = OwnMap(mc.last.packages)
    /\ mc.cache[defaultDriverManifestURLValue] = NoEntry
    /\ mc.now >= driverManifestCacheTTL
    /\ mc.last.packages = loadManifestPackages(ManifestB)

(* Properties of a worker that does not answer *)

\* the goroutine whose request the worker took and does not answer
Waiting(t) == hang.worker = "stuck" /\ hang.g[t].pc = "c_read" /\ hang.resp = ""

\* t stays where it is, with the locks it holds
StaysBlocked(t) ==
    /\ hang'.g[t] = hang.g[t]
    /\ hang'.cmu = hang.cmu
    /\ hang.amu = t => hang'.amu = t

\* C29: while a worker stays alive without writing the response to a request, the
\* call that sent it does not return and holds c.mu, and no other call or close on
\* the client gets past c.mu.Lock(); when the call is the Ping inside getDatabase it
\* also holds a.mu, and no other getDatabase, for whatever fingerprint, gets past
\* a.mu.Lock().
C29_StuckWorkerBlocksCallers ==
    /\ [](hang.worker = "stuck" => \E t \in Goroutines : Waiting(t))
    /\ [](\A t \in Goroutines : Waiting(t) =>
            /\ hang.cmu = t
            /\ \A u \in Goroutines \ {t} : hang.g[u].pc \in {"idle", "a_lock", "c_lock"}
            /\ hang.g[t].op = "getDatabase" =>
                /\ hang.amu = t
                /\ \A u \in Goroutines \ {t} :
                      hang.g[u].op = "getDatabase" => hang.g[u].pc = "a_lock")
    /\ [][\A t \in Goroutines :
            Waiting(t) /\ hang'.worker = "stuck" =>
                /\ StaysBlocked(t)
                /\ \A u \in Goroutines \ {t} :
                      \/ hang.g[u].pc = "c_lock"
                      \/ hang.g[u].pc = "a_lock" /\ hang.g[t].op = "getDatabase"
                      => hang'.g[u] = hang.g[u]]_vars

\* the Ping of a getDatabase waits on a worker that does not answer, while another
\* getDatabase for another fingerprint waits for a.mu and a close waits for c.mu
C29_Witness ==
    \E t, u, v \in Goroutines :
        /\ Waiting(t)
        /\ hang.g[t].op = "getDatabase"
        /\ hang.g[u] = [pc |-> "a_lock", op |-> "getDatabase", key |-> "other"]
        /\ hang.g[v] = [pc |-> "c_lock", op |-> "close", key |-> ""]

----------------------------------------------------------------------------
(* Properties of DuckDB.ApplyChanges (SpecDuck) *)

\* the writes of the statements of a change set that have something to write
WritesOf(changes) ==
    {WriteOf(Statements(changes)[i]) :
        i \in {j \in 1..Len(Statements(changes)) : Statements(changes)[j].columns}}

\* C35: ApplyChanges is all-or-nothing: when it returns without error every write
\* of the change set is visible; when it returns an error (a statement failed, an
\* update has values and no keys, the commit failed, or the transaction did not
\* begin) none is; and none is visible while it runs.
C35_AllOrNothing ==
    /\ duck.pc \in {"begin", "statements"} => duck.table = {}
    /\ duck.pc = "returned" /\ duck.result = "ok" =>
            /\ duck.table = WritesOf(duck.changes)
            /\ duck.tx = "committed"
    /\ duck.pc = "returned" /\ duck.result # "ok" =>
            /\ duck.table = {}
            /\ duck.pending = {}
            /\ duck.tx # "committed"
    /\ (/\ duck.pc = "returned"
        /\ \E i \in 1..Len(duck.changes.Updates) :
              duck.changes.Updates[i].values /\ ~duck.changes.Updates[i].keys)
            => duck.result # "ok"

\* a delete was executed, then an update with values and no keys ended the run:
\* the delete is not visible
C35_Witness ==
    /\ duck.pc = "returned"
    /\ duck.result = "update requires keys"
    /\ duck.executed >= 1
    /\ duck.tx = "rolled back"
    /\ duck.table = {}

----------------------------------------------------------------------------
(* Properties of the cached object in use (SpecUse) *)

\* the operation of goroutine t on the object getDatabase returned to it is in
\* progress
InUse(t) == use.g[t].pc \in {"require", "c_lock", "c_io"}

\* C38: an object that getDatabase returned to a goroutine is not closed by another
\* goroutine while the first one's operation on it is in progress, and its d.client
\* is not set to nil by Close while a call of another goroutine is about to read it.
C38_NotClosedWhileInUse ==
    /\ \A t \in Goroutines : InUse(t) => use.objs[use.g[t].db].open
    /\ \A t, u \in Goroutines :
          (use.g[t].pc = "require" /\ use.g[u].pc = "close_clear")
                => use.g[t].db # use.g[u].db

----------------------------------------------------------------------------
(* Properties of concurrent install runs (SpecRace) *)

\* C39: under every interleaving of concurrent install runs the file at the
\* executable path is completely written, and the digest a successful run records
\* is the digest of the file at the executable path when it reports.
C39_NeverPartial ==
    /\ race.exe # NoInode => Complete(race.inodes[race.exe])
    /\ \A r \in Threads :
          race.run[r].result = "ok" => race.run[r].hash = race.run[r].atReport

====
